---------------------------- MODULE Spec2Model ----------------------------
(***************************************************************************)
(* A model of the sQeeZ recursive-descent parser (Parser::parse and the    *)
(* parsing functions it drives).  The parsing functions are operators over *)
(* the remaining token stream; the driver (parse / buildAST /              *)
(* handleException) is the state machine.                                  *)
(***************************************************************************)
EXTENDS Integers, Sequences, FiniteSets, TLC

VARIABLES
  shape,        \* which token sequence was handed to the constructor (see Build)
  input,        \* the token sequence handed to the constructor
  tokens,       \* Parser::tokens, the remaining stream
  program,      \* the Program that buildAST is filling, Nullptr before it exists
  status,       \* where the parse call is
  exc,          \* the exception in flight or handled
  diagnostics,  \* how many diagnostics handleException has written
  emptyRead     \* whether front() / back() was applied to an empty stream

vars == <<shape, input, tokens, program, status, exc, diagnostics, emptyRead>>

(***************************************************************************)
(* Tokens of the external lexer: category tag, sub-kind, literal text and  *)
(* canonical plain text.                                                   *)
(***************************************************************************)
Tok(tag, type, value, plainText) ==
  [tag |-> tag, type |-> type, value |-> value, plainText |-> plainText]

\* the tokens that carry no text of their own, by name
T ==
  [Init |-> Tok("BASIC", "INIT", "", "BasicToken::INIT"),
   Eof |-> Tok("BASIC", "TOKEN_EOF", "", "BasicToken::TOKEN_EOF"),
   Null |-> Tok("DATA", "NULL_LITERAL", "null", "DataToken::NULL_LITERAL"),
   CommentLit |-> Tok("DATA", "COMMENT_LITERAL", "note", "DataToken::COMMENT_LITERAL"),
   Var |-> Tok("KEYWORD", "VARIABLE", "var", "KeywordToken::VARIABLE"),
   Const |-> Tok("KEYWORD", "CONSTANT", "const", "KeywordToken::CONSTANT"),
   Fn |-> Tok("KEYWORD", "FUNCTION", "fn", "KeywordToken::FUNCTION"),
   If |-> Tok("KEYWORD", "IF", "if", "KeywordToken::IF"),
   Elif |-> Tok("KEYWORD", "ELSE_IF", "elif", "KeywordToken::ELSE_IF"),
   Else |-> Tok("KEYWORD", "ELSE", "else", "KeywordToken::ELSE"),
   While |-> Tok("KEYWORD", "WHILE", "while", "KeywordToken::WHILE"),
   Do |-> Tok("KEYWORD", "DO", "do", "KeywordToken::DO"),
   For |-> Tok("KEYWORD", "FOR", "for", "KeywordToken::FOR"),
   In |-> Tok("KEYWORD", "IN", "in", "KeywordToken::IN"),
   Of |-> Tok("KEYWORD", "OF", "of", "KeywordToken::OF"),
   Return |-> Tok("KEYWORD", "RETURN", "return", "KeywordToken::RETURN"),
   Assign |-> Tok("OPERATOR", "ASSIGN", "=", "OperatorToken::ASSIGN"),
   AddAssign |-> Tok("OPERATOR", "ADDITION_ASSIGNMENT", "+=", "OperatorToken::ADDITION_ASSIGNMENT"),
   SubAssign |-> Tok("OPERATOR", "SUBTRACTION_ASSIGNMENT", "-=", "OperatorToken::SUBTRACTION_ASSIGNMENT"),
   MulAssign |-> Tok("OPERATOR", "MULTIPLICATION_ASSIGNMENT", "*=", "OperatorToken::MULTIPLICATION_ASSIGNMENT"),
   DivAssign |-> Tok("OPERATOR", "DIVISION_ASSIGNMENT", "/=", "OperatorToken::DIVISION_ASSIGNMENT"),
   ModAssign |-> Tok("OPERATOR", "MODULUS_ASSIGNMENT", "%=", "OperatorToken::MODULUS_ASSIGNMENT"),
   PowAssign |-> Tok("OPERATOR", "POTENTIATION_ASSIGNMENT", "**=", "OperatorToken::POTENTIATION_ASSIGNMENT"),
   Plus |-> Tok("OPERATOR", "ADDITION", "+", "OperatorToken::ADDITION"),
   Minus |-> Tok("OPERATOR", "SUBTRACTION", "-", "OperatorToken::SUBTRACTION"),
   Mul |-> Tok("OPERATOR", "MULTIPLICATION", "*", "OperatorToken::MULTIPLICATION"),
   Div |-> Tok("OPERATOR", "DIVISION", "/", "OperatorToken::DIVISION"),
   Mod |-> Tok("OPERATOR", "MODULUS", "%", "OperatorToken::MODULUS"),
   Pow |-> Tok("OPERATOR", "POTENTIATION", "**", "OperatorToken::POTENTIATION"),
   Inc |-> Tok("OPERATOR", "INCREMENT", "++", "OperatorToken::INCREMENT"),
   Dec |-> Tok("OPERATOR", "DECREMENT", "--", "OperatorToken::DECREMENT"),
   And |-> Tok("LOGICAL", "AND", "&&", "LogicalToken::AND"),
   Or |-> Tok("LOGICAL", "OR", "||", "LogicalToken::OR"),
   Not |-> Tok("LOGICAL", "NOT", "!", "LogicalToken::NOT"),
   Eq |-> Tok("LOGICAL", "EQUAL", "==", "LogicalToken::EQUAL"),
   Neq |-> Tok("LOGICAL", "NOT_EQUAL", "!=", "LogicalToken::NOT_EQUAL"),
   Less |-> Tok("LOGICAL", "LESS", "<", "LogicalToken::LESS"),
   Greater |-> Tok("LOGICAL", "GREATER", ">", "LogicalToken::GREATER"),
   LessEq |-> Tok("LOGICAL", "LESS_EQUAL", "<=", "LogicalToken::LESS_EQUAL"),
   GreaterEq |-> Tok("LOGICAL", "GREATER_EQUAL", ">=", "LogicalToken::GREATER_EQUAL"),
   LParen |-> Tok("SYNTAX", "OPEN_PARENTHESIS", "(", "SyntaxToken::OPEN_PARENTHESIS"),
   RParen |-> Tok("SYNTAX", "CLOSE_PARENTHESIS", ")", "SyntaxToken::CLOSE_PARENTHESIS"),
   LBracket |-> Tok("SYNTAX", "OPEN_BRACKET", "[", "SyntaxToken::OPEN_BRACKET"),
   RBracket |-> Tok("SYNTAX", "CLOSE_BRACKET", "]", "SyntaxToken::CLOSE_BRACKET"),
   LBrace |-> Tok("SYNTAX", "OPEN_BRACE", "{", "SyntaxToken::OPEN_BRACE"),
   RBrace |-> Tok("SYNTAX", "CLOSE_BRACE", "}", "SyntaxToken::CLOSE_BRACE"),
   Comma |-> Tok("SYNTAX", "COMMA", ",", "SyntaxToken::COMMA"),
   Semi |-> Tok("SYNTAX", "SEMICOLON", ";", "SyntaxToken::SEMICOLON"),
   Colon |-> Tok("SYNTAX", "COLON", ":", "SyntaxToken::COLON"),
   Dot |-> Tok("SYNTAX", "DOT", ".", "SyntaxToken::DOT"),
   Question |-> Tok("SYNTAX", "QUESTION_MARK", "?", "SyntaxToken::QUESTION_MARK"),
   DQuote |-> Tok("SYNTAX", "DOUBLE_QUOTE", "dq", "SyntaxToken::DOUBLE_QUOTE"),
   SQuote |-> Tok("SYNTAX", "SINGLE_QUOTE", "sq", "SyntaxToken::SINGLE_QUOTE"),
   Hash |-> Tok("SYNTAX", "HASHTAG", "#", "SyntaxToken::HASHTAG"),
   At |-> Tok("SYNTAX", "AT", "@", "SyntaxToken::AT"),
   Arrow |-> Tok("SYNTAX", "CALLBACK", "=>", "SyntaxToken::CALLBACK"),
   Pipe |-> Tok("SYNTAX", "PIPE_OPERATOR", "|>", "SyntaxToken::PIPE_OPERATOR"),
   Comment |-> Tok("SYNTAX", "INLINE_COMMENT", "//", "SyntaxToken::INLINE_COMMENT"),
   Log |-> Tok("LOG", "BASIC", "log", "LogToken::BASIC"),
   Logc |-> Tok("LOG", "COLORED", "logc", "LogToken::COLORED"),
   Warn |-> Tok("LOG", "WARN", "warn", "LogToken::WARN"),
   Error |-> Tok("LOG", "ERROR", "error", "LogToken::ERROR")]

TId(name) == Tok("DATA", "IDENTIFIER", name, "DataToken::IDENTIFIER")
TInt(digits) == Tok("DATA", "INTEGER_LITERAL", digits, "DataToken::INTEGER_LITERAL")
TDouble(digits) == Tok("DATA", "DOUBLE_LITERAL", digits, "DataToken::DOUBLE_LITERAL")
TBool(text) == Tok("DATA", "BOOLEAN_LITERAL", text, "DataToken::BOOLEAN_LITERAL")
TString(text) == Tok("DATA", "STRING_LITERAL", text, "DataToken::STRING_LITERAL")
TChar(text) == Tok("DATA", "CHAR_LITERAL", text, "DataToken::CHAR_LITERAL")
THex(text) == Tok("DATA", "HEX_CODE_LITERAL", text, "DataToken::HEX_CODE_LITERAL")
TShort(type) == Tok("SHORT_NOTATION", type, type, "ShortNotationToken")

Is(t, tag, type) == t.tag = tag /\ t.type = type

(***************************************************************************)
(* Results of a parsing function: it returns a node and leaves a stream    *)
(* ("ok"), throws ("throw"), or reads an empty stream ("undefined").       *)
(***************************************************************************)
Nullptr == [kind |-> "nullptr"]
NoExc == [type |-> "none", what |-> <<>>]

Ok(node, toks) == [st |-> "ok", node |-> node, toks |-> toks, exc |-> NoExc]
Throw(type, what, toks) ==
  [st |-> "throw", node |-> Nullptr, toks |-> toks, exc |-> [type |-> type, what |-> what]]
Undefined(toks) == [st |-> "undefined", node |-> Nullptr, toks |-> toks, exc |-> NoExc]

(***************************************************************************)
(* Cursor / utility layer.  Every operator below takes the remaining       *)
(* stream toks; the callers test toks = <<>> before a peek or an advance,  *)
(* because front() and back() of an empty vector are undefined.            *)
(***************************************************************************)
peek(toks, steps) == IF Len(toks) < steps THEN toks[Len(toks)] ELSE toks[steps]

isEOF(toks) == Is(peek(toks, 1), "BASIC", "TOKEN_EOF")

\* seeded fault: a lookAhead that clamps to the last token as peek does
lookAhead_clamped(toks, steps) == Ok(peek(toks, steps), toks)

lookAhead(toks, steps) ==
  IF steps < 0 \/ Len(toks) < steps
    THEN Throw("std::runtime_error", <<"Unexpected end of file">>, toks)
    ELSE IF steps = 0 THEN Undefined(toks) ELSE Ok(toks[steps], toks)

advance(toks) == IF toks = <<>> THEN Undefined(toks) ELSE Ok(Head(toks), Tail(toks))

\* seeded fault: an assertToken that does not compare the token with the expected kind
assertToken_unchecked(toks, expected, errorMessage) == advance(toks)

\* seeded fault: an assertToken whose failure leaves out the message of the caller
assertToken_silent(toks, expected, errorMessage) ==
  LET a == advance(toks) IN
  IF a.st # "ok" THEN a
  ELSE IF a.node.plainText # expected
    THEN Throw("std::invalid_argument", <<"Unexpected token found: ", a.node.plainText>>, a.toks)
    ELSE a

assertToken(toks, expected, errorMessage) ==
  LET a == advance(toks) IN
  IF a.st # "ok" THEN a
  ELSE IF a.node.plainText # expected
    THEN Throw("std::invalid_argument",
               <<"Unexpected token found: ", a.node.plainText, "\n", errorMessage>>, a.toks)
    ELSE a

skipSemicolon(toks) ==
  IF toks = <<>> THEN Undefined(toks)
  ELSE IF Is(peek(toks, 1), "SYNTAX", "SEMICOLON")
    THEN assertToken(toks, "SyntaxToken::SEMICOLON", "Expected semicolon")
    ELSE Ok(Nullptr, toks)

skipComment(toks) ==
  LET a == assertToken(toks, "SyntaxToken::INLINE_COMMENT", "Expected inline comment token") IN
  IF a.st # "ok" THEN a
  ELSE IF a.toks = <<>> THEN Undefined(a.toks)
  ELSE IF Is(peek(a.toks, 1), "DATA", "COMMENT_LITERAL")
    THEN assertToken(a.toks, "DataToken::COMMENT_LITERAL", "Expected comment literal")
    ELSE Ok(Nullptr, a.toks)

(***************************************************************************)
(* Text-to-number conversion of an integer literal: the token text is its  *)
(* sequence of decimal digits, the value a 32-bit int (at most IntMax).    *)
(***************************************************************************)
IntMax == 2147483647

RECURSIVE stoiFrom(_, _)
stoiFrom(digits, acc) ==
  IF digits = <<>> THEN acc
  ELSE IF acc = -1 \/ acc > (IntMax - Head(digits)) \div 10 THEN -1
  ELSE stoiFrom(Tail(digits), acc * 10 + Head(digits))

\* seeded fault: a conversion that saturates at IntMax where the text does not fit
stoi_saturating(digits) == IF stoiFrom(digits, 0) = -1 THEN IntMax ELSE stoiFrom(digits, 0)

\* the value, or -1 when the text does not fit an int (std::out_of_range)
stoi(digits) == stoiFrom(digits, 0)

shortEnumToString ==
  [LENGTH |-> "length", CONCAT |-> "concat", INCLUDES |-> "includes",
   INDEX_OF |-> "indexOf", LAST_INDEX_OF |-> "lastIndexOf", SLICE |-> "slice",
   PUSH |-> "push", POP |-> "pop", SHIFT |-> "shift", UNSHIFT |-> "unshift",
   SPLICE |-> "splice", REVERSE |-> "reverse", SORT |-> "sort", FILL |-> "fill",
   JOIN |-> "join", COUNT |-> "count", EVERY |-> "every", SOME |-> "some",
   FIND |-> "find", FIND_INDEX |-> "findIndex", FIND_LAST |-> "findLast",
   FIND_LAST_INDEX |-> "findLastIndex", FILTER |-> "filter", MAP |-> "map",
   REDUCE |-> "reduce", FLAT |-> "flat", FLAT_MAP |-> "flatMap",
   FOR_EACH |-> "forEach", HAS_KEY |-> "hasKey", KEYS |-> "keys",
   VALUES |-> "values", ENTRIES |-> "entries", GET |-> "get",
   CHAR_AT |-> "charAt", CHAR_CODE_AT |-> "charCodeAt", MATCH |-> "match",
   MATCH_ALL |-> "matchAll", PAD_END |-> "padEnd", PAD_START |-> "padStart",
   REPEAT |-> "repeat", REPLACE |-> "replace", REPLACE_ALL |-> "replaceAll",
   SPLIT |-> "split", STARTS_WITH |-> "startsWith", ENDS_WITH |-> "endsWith",
   SUBSTRING |-> "substring", LOWERCASE |-> "lowercase", UPPERCASE |-> "uppercase",
   TRIM |-> "trim", TRIM_END |-> "trimEnd", TRIM_START |-> "trimStart"]

(***************************************************************************)
(* AST nodes, as their constructors build them.                            *)
(***************************************************************************)
BinaryExpr(left, right, operator_) ==
  [kind |-> "BinaryExpr", left |-> left, right |-> right, operator_ |-> operator_]
UnaryExpr(operator_, operand, isPrefix) ==
  [kind |-> "UnaryExpr", operator_ |-> operator_, operand |-> operand, isPrefix |-> isPrefix]
AssignmentExpr(assignee, value) ==
  [kind |-> "AssignmentExpr", assignee |-> assignee, value |-> value]
CompoundAssignmentExpr(assignee, value, operator_) ==
  [kind |-> "CompoundAssignmentExpr", assignee |-> assignee, value |-> value,
   operator_ |-> operator_]
TernaryExpr(condition, trueExpr, falseExpr) ==
  [kind |-> "TernaryExpr", condition |-> condition, trueExpr |-> trueExpr,
   falseExpr |-> falseExpr]
CallExpr(caller, method, args) ==
  [kind |-> "CallExpr", caller |-> caller, method |-> method, args |-> args]
MemberExpr(object, property, computed) ==
  [kind |-> "MemberExpr", object |-> object, property |-> property, computed |-> computed]
CallbackFunctionExpr(parameters, stmts) ==
  [kind |-> "CallbackFunctionExpr", parameters |-> parameters, body |-> stmts]
Property(key, value) == [kind |-> "Property", key |-> key, value |-> value]
ObjectLiteral(properties) == [kind |-> "ObjectLiteral", properties |-> properties]
ArrayLiteral(elements) == [kind |-> "ArrayLiteral", elements |-> elements]
Identifier(identifier) == [kind |-> "Identifier", identifier |-> identifier]
NullLiteral == [kind |-> "NullLiteral"]
IntegerLiteral(value) == [kind |-> "IntegerLiteral", ivalue |-> value]
DoubleLiteral(negative, text) == [kind |-> "DoubleLiteral", negative |-> negative, text |-> text]
BooleanLiteral(value) == [kind |-> "BooleanLiteral", bvalue |-> value]
CharLiteral(value) == [kind |-> "CharLiteral", cvalue |-> value]
StringLiteral(value) == [kind |-> "StringLiteral", svalue |-> value]
HexCodeLiteral(value) == [kind |-> "HexCodeLiteral", hvalue |-> value]
ShortOperationExpr(operation_, value) ==
  [kind |-> "ShortOperationExpr", operation_ |-> operation_, value |-> value]

FunctionDeclaration(name, parameters, stmts) ==
  [kind |-> "FunctionDeclaration", name |-> name, parameters |-> parameters, body |-> stmts]
ReturnStmt(value) == [kind |-> "ReturnStmt", value |-> value]
VarDeclaration(type, declarations) ==
  [kind |-> "VarDeclaration", type |-> type, declarations |-> declarations]
ConditionalStmt(ifClause, elifClauses, elseBody) ==
  [kind |-> "ConditionalStmt", ifClause |-> ifClause, elifClauses |-> elifClauses,
   elseBody |-> elseBody]
WhileStmt(condition, stmts) == [kind |-> "WhileStmt", condition |-> condition, body |-> stmts]
DoWhileStmt(condition, stmts) ==
  [kind |-> "DoWhileStmt", condition |-> condition, body |-> stmts]
ForStmt(iterator, condition, increment, stmts) ==
  [kind |-> "ForStmt", iterator |-> iterator, condition |-> condition,
   increment |-> increment, body |-> stmts]
ForInStmt(iterator, iterable, stmts) ==
  [kind |-> "ForInStmt", iterator |-> iterator, iterable |-> iterable, body |-> stmts]
ForOfStmt(iterator, iterable, stmts) ==
  [kind |-> "ForOfStmt", iterator |-> iterator, iterable |-> iterable, body |-> stmts]
LogStmt(logType, message, color) ==
  [kind |-> "LogStmt", logType |-> logType, message |-> message, color |-> color]

\* the NodeType the constructor of each node class sets, in the two revisions
\* of the AST model
NodeTypeOf_ast_nodes ==
  [c \in {"Program", "FunctionDeclaration", "ReturnStmt", "VarDeclaration", "ConditionalStmt",
          "WhileStmt", "DoWhileStmt", "ForStmt", "ForInStmt", "ForOfStmt", "LogStmt",
          "AssignmentExpr", "CompoundAssignmentExpr", "CallbackFunctionExpr", "TernaryExpr",
          "BinaryExpr", "UnaryExpr", "CallExpr", "MemberExpr", "Property", "ObjectLiteral",
          "ArrayLiteral", "Identifier", "NullLiteral", "IntegerLiteral", "DoubleLiteral",
          "BooleanLiteral", "CharLiteral", "StringLiteral", "HexCodeLiteral",
          "ShortOperationLiteral", "ShortSingleExpressionLiteral",
          "ShortDoubleExpressionLiteral"} |-> c]
NodeTypeOf_part_002 ==
  [Program |-> "Program", VarDeclaration |-> "VarDeclaration",
   FunctionDeclaration |-> "FunctionDeclaration",
   ConditionalStatement |-> "ConditionalStatement", WhileStmt |-> "ConditionalStatement",
   DoWhileStmt |-> "ConditionalStatement", ForStmt |-> "ConditionalStatement",
   ForInStmt |-> "ConditionalStatement", ForOfStmt |-> "ConditionalStatement",
   ReturnStmt |-> "ReturnStmt", LogStmt |-> "LogStmt", AssignmentExpr |-> "AssignmentExpr",
   CompoundAssignmentExpr |-> "CompoundAssignmentExpr", TernaryExpr |-> "TernaryExpr",
   UnaryExpr |-> "UnaryExpr", BinaryExpr |-> "BinaryExpr", CallExpr |-> "CallExpr",
   MemberExpr |-> "MemberExpr", Identifier |-> "Identifier",
   IntegerLiteral |-> "IntegerLiteral", DoubleLiteral |-> "DoubleLiteral",
   StringLiteral |-> "StringLiteral", CharLiteral |-> "CharLiteral",
   BooleanLiteral |-> "BooleanLiteral", NullLiteral |-> "BooleanLiteral",
   HexCodeLiteral |-> "HexCodeLiteral", Property |-> "Property",
   ObjectLiteral |-> "ObjectLiteral", ArrayLiteral |-> "ArrayLiteral",
   ShortOperationLiteral |-> "ShortOperationLiteral",
   ShortExpressionLiteral |-> "ShortExpressionLiteral",
   ShortDoubleExpressionLiteral |-> "ShortDoubleExpressionLiteral"]

(***************************************************************************)
(* The parsing functions.  Each takes the remaining stream and u, the      *)
(* values the uninitialised reads of the parser happen to yield.  A call   *)
(* of one parsing function by another is written Call("callee", ...):      *)
(* Call and Call4, defined after the grammar, apply the function named.    *)
(***************************************************************************)
RECURSIVE Call(_, _, _)
RECURSIVE Call4(_, _, _, _, _)

parseExpression(toks, u) == Call("parseAssignmentExpr", toks, u)

\* the node with a following terminator skipped (skipSemicolon; return expression)
SkipSemicolonAfter(node, toks) ==
  LET s == skipSemicolon(toks) IN IF s.st # "ok" THEN s ELSE Ok(node, s.toks)

parseAssignmentExpr(toks, u) ==
  LET left == Call("parseTernaryExpr", toks, u) IN
  IF left.st # "ok" THEN left
  ELSE IF left.toks = <<>> THEN Undefined(left.toks)
  ELSE IF peek(left.toks, 1).tag = "OPERATOR"
    THEN IF peek(left.toks, 1).type = "ASSIGN"
      THEN LET a == assertToken(left.toks, "OperatorToken::ASSIGN",
                                "Expected '=' after assignment expression.")
               value == Call("parseAssignmentExpr", a.toks, u) IN
           IF a.st # "ok" THEN a
           ELSE IF value.st # "ok" THEN value
           ELSE SkipSemicolonAfter(AssignmentExpr(left.node, value.node), value.toks)
      ELSE IF peek(left.toks, 1).type \in
                {"ADDITION_ASSIGNMENT", "SUBTRACTION_ASSIGNMENT", "MULTIPLICATION_ASSIGNMENT",
                 "DIVISION_ASSIGNMENT", "MODULUS_ASSIGNMENT"}
        THEN LET operator_ == advance(left.toks)
                 value == Call("parseAssignmentExpr", operator_.toks, u) IN
             IF value.st # "ok" THEN value
             ELSE SkipSemicolonAfter(
                    CompoundAssignmentExpr(left.node, value.node, operator_.node), value.toks)
        ELSE left
    ELSE left

parseTernaryExpr(toks, u) ==
  LET condition == Call("parseLogicalExpr", toks, u) IN
  IF condition.st # "ok" THEN condition
  ELSE IF condition.toks = <<>> THEN Undefined(condition.toks)
  ELSE IF Is(peek(condition.toks, 1), "SYNTAX", "QUESTION_MARK")
    THEN LET q == assertToken(condition.toks, "SyntaxToken::QUESTION_MARK",
                              "Expected '?' after condition in ternary operator.")
             trueExpr == Call("parseExpression", q.toks, u)
             c == assertToken(trueExpr.toks, "SyntaxToken::COLON",
                              "Expected ':' after true expression in ternary operator.")
             falseExpr == Call("parseExpression", c.toks, u) IN
         IF q.st # "ok" THEN q
         ELSE IF trueExpr.st # "ok" THEN trueExpr
         ELSE IF c.st # "ok" THEN c
         ELSE IF falseExpr.st # "ok" THEN falseExpr
         ELSE Ok(TernaryExpr(condition.node, trueExpr.node, falseExpr.node), falseExpr.toks)
    ELSE condition

RECURSIVE parseLogicalExpr_while(_, _, _)
parseLogicalExpr_while(left, toks, u) ==
  IF toks = <<>> THEN Undefined(toks)
  ELSE IF peek(toks, 1).tag = "LOGICAL" /\ peek(toks, 1).type \in {"AND", "OR"}
    THEN LET operator_ == advance(toks)
             right == Call("parseEqualityExpr", operator_.toks, u) IN
         IF right.st # "ok" THEN right
         ELSE parseLogicalExpr_while(BinaryExpr(left, right.node, operator_.node),
                                     right.toks, u)
    ELSE Ok(left, toks)

parseLogicalExpr(toks, u) ==
  LET left == Call("parseEqualityExpr", toks, u) IN
  IF left.st # "ok" THEN left ELSE parseLogicalExpr_while(left.node, left.toks, u)

RECURSIVE parseEqualityExpr_while(_, _, _)
parseEqualityExpr_while(left, toks, u) ==
  IF toks = <<>> THEN Undefined(toks)
  ELSE IF peek(toks, 1).tag = "LOGICAL" /\ peek(toks, 1).type \in {"EQUAL", "NOT_EQUAL"}
    THEN LET operator_ == advance(toks)
             right == Call("parseRelationalExpr", operator_.toks, u) IN
         IF right.st # "ok" THEN right
         ELSE parseEqualityExpr_while(BinaryExpr(left, right.node, operator_.node),
                                      right.toks, u)
    ELSE Ok(left, toks)

parseEqualityExpr(toks, u) ==
  LET left == Call("parseRelationalExpr", toks, u) IN
  IF left.st # "ok" THEN left ELSE parseEqualityExpr_while(left.node, left.toks, u)

RECURSIVE parseRelationalExpr_while(_, _, _)
parseRelationalExpr_while(left, toks, u) ==
  IF toks = <<>> THEN Undefined(toks)
  ELSE IF peek(toks, 1).tag = "LOGICAL" /\
          peek(toks, 1).type \in {"LESS", "GREATER", "LESS_EQUAL", "GREATER_EQUAL"}
    THEN LET operator_ == advance(toks)
             right == Call("parseAdditiveExpr", operator_.toks, u) IN
         IF right.st # "ok" THEN right
         ELSE parseRelationalExpr_while(BinaryExpr(left, right.node, operator_.node),
                                        right.toks, u)
    ELSE Ok(left, toks)

parseRelationalExpr(toks, u) ==
  LET left == Call("parseAdditiveExpr", toks, u) IN
  IF left.st # "ok" THEN left ELSE parseRelationalExpr_while(left.node, left.toks, u)

RECURSIVE parseAdditiveExpr_while(_, _, _)
parseAdditiveExpr_while(left, toks, u) ==
  IF toks = <<>> THEN Undefined(toks)
  ELSE IF peek(toks, 1).tag = "OPERATOR" /\ peek(toks, 1).type \in {"ADDITION", "SUBTRACTION"}
    THEN LET operator_ == advance(toks)
             right == Call("parseMultiplicativeExpr", operator_.toks, u) IN
         IF right.st # "ok" THEN right
         ELSE parseAdditiveExpr_while(BinaryExpr(left, right.node, operator_.node),
                                      right.toks, u)
    ELSE Ok(left, toks)

parseAdditiveExpr(toks, u) ==
  LET left == Call("parseMultiplicativeExpr", toks, u) IN
  IF left.st # "ok" THEN left ELSE parseAdditiveExpr_while(left.node, left.toks, u)

\* seeded fault: the multiplicative level left out of the precedence chain
parseMultiplicativeExpr_skipped(toks, u) == Call("parsePowerExpr", toks, u)

RECURSIVE parseMultiplicativeExpr_while(_, _, _)
parseMultiplicativeExpr_while(left, toks, u) ==
  IF toks = <<>> THEN Undefined(toks)
  ELSE IF peek(toks, 1).tag = "OPERATOR" /\
          peek(toks, 1).type \in {"MULTIPLICATION", "DIVISION", "MODULUS"}
    THEN LET operator_ == advance(toks)
             right == Call("parsePowerExpr", operator_.toks, u) IN
         IF right.st # "ok" THEN right
         ELSE parseMultiplicativeExpr_while(BinaryExpr(left, right.node, operator_.node),
                                            right.toks, u)
    ELSE Ok(left, toks)

parseMultiplicativeExpr(toks, u) ==
  LET left == Call("parsePowerExpr", toks, u) IN
  IF left.st # "ok" THEN left ELSE parseMultiplicativeExpr_while(left.node, left.toks, u)

\* seeded fault: a power level that recurses on its right operand (right-associative)
parsePowerExpr_rightRecursive(toks, u) ==
  LET left == Call("parseCallMemberExpr", toks, u) IN
  IF left.st # "ok" THEN left
  ELSE IF left.toks = <<>> THEN Undefined(left.toks)
  ELSE IF Is(peek(left.toks, 1), "OPERATOR", "POTENTIATION")
    THEN LET right == Call("parsePowerExpr", Tail(left.toks), u) IN
         IF right.st # "ok" THEN right
         ELSE Ok(BinaryExpr(left.node, right.node, Head(left.toks)), right.toks)
    ELSE left

RECURSIVE parsePowerExpr_while(_, _, _)
parsePowerExpr_while(left, toks, u) ==
  IF toks = <<>> THEN Undefined(toks)
  ELSE IF Is(peek(toks, 1), "OPERATOR", "POTENTIATION")
    THEN LET operator_ == assertToken(toks, "OperatorToken::POTENTIATION",
                                      "Expected '**' for power operator")
             right == Call("parseCallMemberExpr", operator_.toks, u) IN
         IF operator_.st # "ok" THEN operator_
         ELSE IF right.st # "ok" THEN right
         ELSE parsePowerExpr_while(BinaryExpr(left, right.node, operator_.node),
                                   right.toks, u)
    ELSE Ok(left, toks)

parsePowerExpr(toks, u) ==
  LET left == Call("parseCallMemberExpr", toks, u) IN
  IF left.st # "ok" THEN left ELSE parsePowerExpr_while(left.node, left.toks, u)

parseCallMemberExpr(toks, u) ==
  LET expression == Call("parseMemberExpr", toks, u) IN
  IF expression.st # "ok" THEN expression
  ELSE IF expression.toks = <<>> THEN Undefined(expression.toks)
  ELSE IF Is(peek(expression.toks, 1), "SYNTAX", "OPEN_PARENTHESIS")
    THEN Call4("parseCallExpr", Nullptr, expression.node, expression.toks, u)
  ELSE IF peek(expression.toks, 1).tag = "OPERATOR" /\
          peek(expression.toks, 1).type \in {"INCREMENT", "DECREMENT"}
    THEN LET operatorToken == advance(expression.toks) IN
         Ok(UnaryExpr(operatorToken.node, expression.node, FALSE), operatorToken.toks)
  ELSE expression

\* the suffix of a call: ".method(args)", "|> SHORT(args)" or nothing
CallSuffix(callExpr, toks, u) ==
  IF toks = <<>> THEN Undefined(toks)
  ELSE IF Is(peek(toks, 1), "SYNTAX", "DOT")
    THEN LET d == assertToken(toks, "SyntaxToken::DOT",
                              "Expected dot operator following method call")
             followingMethod == Call("parsePrimaryExpr", d.toks, u) IN
         IF d.st # "ok" THEN d
         ELSE IF followingMethod.st # "ok" THEN followingMethod
         ELSE Call4("parseCallExpr", callExpr, followingMethod.node, followingMethod.toks, u)
  ELSE IF Is(peek(toks, 1), "SYNTAX", "PIPE_OPERATOR")
    THEN LET d == assertToken(toks, "SyntaxToken::PIPE_OPERATOR",
                              "Expected pipe operator following method call")
             followingMethod == Call("parsePrimaryExpr", d.toks, u) IN
         IF d.st # "ok" THEN d
         ELSE IF followingMethod.st # "ok" THEN followingMethod
         ELSE Call4("parseShortExpr", callExpr, followingMethod.node, followingMethod.toks, u)
  ELSE Ok(callExpr, toks)

parseCallExpr(caller, method, toks, u) ==
  LET args == Call("parseArgs", toks, u) IN
  IF args.st # "ok" THEN args
  ELSE CallSuffix(CallExpr(caller, method, args.node), args.toks, u)

parseShortExpr(caller, method, toks, u) ==
  LET args == Call("parseShortArgs", toks, u) IN
  IF args.st # "ok" THEN args
  ELSE CallSuffix(CallExpr(caller, method, args.node), args.toks, u)

parseArgs(toks, u) ==
  LET o == assertToken(toks, "SyntaxToken::OPEN_PARENTHESIS", "Expected open parenthesis") IN
  IF o.st # "ok" THEN o
  ELSE IF o.toks = <<>> THEN Undefined(o.toks)
  ELSE LET args == IF Is(peek(o.toks, 1), "SYNTAX", "CLOSE_PARENTHESIS")
                     THEN Ok(<<>>, o.toks)
                     ELSE Call("parseArgumentsList", o.toks, u)
           c == assertToken(args.toks, "SyntaxToken::CLOSE_PARENTHESIS",
                            "Missing closing parenthesis inside arguments list") IN
       IF args.st # "ok" THEN args
       ELSE IF c.st # "ok" THEN c
       ELSE Ok(args.node, c.toks)

\* token.type read through another member of the union than the one the tag names:
\* the comparison then has the outcome u.alias
TypeReadAs(t, tag, type, u) == IF t.tag = tag THEN t.type = type ELSE u.alias

RECURSIVE parseShortArgs_while(_, _, _)
parseShortArgs_while(args, toks, u) ==
  IF toks = <<>> THEN Undefined(toks)
  ELSE IF peek(toks, 1).tag # "SYNTAX" /\
          ~TypeReadAs(peek(toks, 1), "SYNTAX", "CLOSE_PARENTHESIS", u)
    THEN LET c == IF Len(args) > 0
                    THEN assertToken(toks, "SyntaxToken::COMMA",
                                     "Expected comma between arguments")
                    ELSE Ok(Nullptr, toks) IN
         IF c.st # "ok" THEN c
         ELSE IF c.toks = <<>> THEN Undefined(c.toks)
         ELSE LET t == peek(c.toks, 1)
                  arg ==
                    IF \/ (t.tag = "LOGICAL" /\ t.type \notin {"AND", "OR"})
                       \/ (t.tag = "OPERATOR" /\ t.type \notin
                             {"ASSIGN", "ADDITION_ASSIGNMENT", "SUBTRACTION_ASSIGNMENT",
                              "MULTIPLICATION_ASSIGNMENT", "DIVISION_ASSIGNMENT",
                              "MODULUS_ASSIGNMENT", "POTENTIATION_ASSIGNMENT"})
                      THEN IF TypeReadAs(t, "OPERATOR", "INCREMENT", u)
                        THEN Ok(ShortOperationExpr(
                                  Tok("OPERATOR", "ADDITION", "+", "OperatorToken::ADDITION"),
                                  IntegerLiteral(1)), Tail(c.toks))
                      ELSE IF TypeReadAs(t, "OPERATOR", "DECREMENT", u)
                        THEN Ok(ShortOperationExpr(
                                  Tok("OPERATOR", "SUBTRACTION", "-", "OperatorToken::SUBTRACTION"),
                                  IntegerLiteral(1)), Tail(c.toks))
                      ELSE LET e == Call("parseExpression", Tail(c.toks), u) IN
                           IF e.st # "ok" THEN e
                           ELSE Ok(ShortOperationExpr(t, e.node), e.toks)
                      ELSE Call("parseExpression", c.toks, u) IN
              IF arg.st # "ok" THEN arg
              ELSE parseShortArgs_while(Append(args, arg.node), arg.toks, u)
    ELSE Ok(args, toks)

parseShortArgs(toks, u) ==
  LET o == assertToken(toks, "SyntaxToken::OPEN_PARENTHESIS", "Expected open parenthesis") IN
  IF o.st # "ok" THEN o
  ELSE LET args == parseShortArgs_while(<<>>, o.toks, u)
           c == assertToken(args.toks, "SyntaxToken::CLOSE_PARENTHESIS",
                            "Missing closing parenthesis inside arguments list") IN
       IF args.st # "ok" THEN args
       ELSE IF c.st # "ok" THEN c
       ELSE Ok(args.node, c.toks)

RECURSIVE parseArgumentsList_while(_, _, _)
parseArgumentsList_while(args, toks, u) ==
  IF toks = <<>> THEN Undefined(toks)
  ELSE IF Is(peek(toks, 1), "SYNTAX", "COMMA")
    THEN LET c == assertToken(toks, "SyntaxToken::COMMA", "Expected comma between arguments")
             arg == Call("parseAssignmentExpr", c.toks, u) IN
         IF c.st # "ok" THEN c
         ELSE IF arg.st # "ok" THEN arg
         ELSE parseArgumentsList_while(Append(args, arg.node), arg.toks, u)
    ELSE Ok(args, toks)

parseArgumentsList(toks, u) ==
  LET arg == Call("parseAssignmentExpr", toks, u) IN
  IF arg.st # "ok" THEN arg ELSE parseArgumentsList_while(<<arg.node>>, arg.toks, u)

RECURSIVE parseMemberExpr_while(_, _, _)
parseMemberExpr_while(object, toks, u) ==
  IF toks = <<>> THEN Undefined(toks)
  ELSE IF peek(toks, 1).tag = "SYNTAX" /\
          peek(toks, 1).type \in {"DOT", "OPEN_BRACKET", "PIPE_OPERATOR"}
    THEN LET token == advance(toks) IN
         IF token.node.type = "DOT"
           THEN LET property == Call("parsePrimaryExpr", token.toks, u) IN
                IF property.st # "ok" THEN property
                ELSE IF property.node = Nullptr THEN Undefined(property.toks)
                ELSE IF property.node.kind # "Identifier"
                  THEN Throw("std::invalid_argument",
                             <<"Cannot use dot operator without right-hand side being an identifier.">>,
                             property.toks)
                ELSE IF property.toks = <<>> THEN Undefined(property.toks)
                ELSE IF Is(peek(property.toks, 1), "SYNTAX", "OPEN_PARENTHESIS")
                  THEN LET call == Call4("parseCallExpr", object, property.node, property.toks, u) IN
                       IF call.st # "ok" THEN call
                       ELSE parseMemberExpr_while(call.node, call.toks, u)
                  ELSE parseMemberExpr_while(MemberExpr(object, property.node, FALSE),
                                             property.toks, u)
         ELSE IF token.node.type = "OPEN_BRACKET"
           THEN LET property == Call("parseExpression", token.toks, u)
                    c == assertToken(property.toks, "SyntaxToken::CLOSE_BRACKET",
                                     "Missing closing bracket in computed value.") IN
                IF property.st # "ok" THEN property
                ELSE IF c.st # "ok" THEN c
                ELSE parseMemberExpr_while(MemberExpr(object, property.node, TRUE), c.toks, u)
         ELSE IF token.toks = <<>> THEN Undefined(token.toks)
         ELSE IF peek(token.toks, 1).tag # "SHORT_NOTATION"
           THEN Throw("std::invalid_argument",
                      <<"Expected Short Notation following pipe operator.">>, token.toks)
         ELSE LET property == Call("parsePrimaryExpr", token.toks, u)
                  call == Call4("parseShortExpr", object, property.node, property.toks, u) IN
              IF property.st # "ok" THEN property
              ELSE IF call.st # "ok" THEN call
              ELSE parseMemberExpr_while(call.node, call.toks, u)
    ELSE Ok(object, toks)

parseMemberExpr(toks, u) ==
  LET object == Call("parsePrimaryExpr", toks, u) IN
  IF object.st # "ok" THEN object ELSE parseMemberExpr_while(object.node, object.toks, u)

\* while (true) { i++; ... lookAhead(i) ... }: the index of the ")" the scan stops at
RECURSIVE ParenScan(_, _, _)
ParenScan(toks, i, scope) ==
  LET t == lookAhead(toks, i + 1) IN
  IF t.st # "ok" THEN t
  ELSE IF Is(t.node, "SYNTAX", "OPEN_PARENTHESIS") THEN ParenScan(toks, i + 1, scope + 1)
  ELSE IF Is(t.node, "SYNTAX", "CLOSE_PARENTHESIS")
    THEN IF scope = 0 THEN Ok(i + 1, toks) ELSE ParenScan(toks, i + 1, scope - 1)
  ELSE ParenScan(toks, i + 1, scope)

\* std::regex_match(value, "^true|false$")
boolPattern(value) == value \in {"true", "false"}

UnexpectedPrimary(token, toks) ==
  Throw("std::logic_error",
        <<"Unexpected token \"", token.plainText, "\" found in primary expression.">>, toks)

\* seeded fault: a minus that wraps the literal in a UnaryExpr
parsePrimaryExpr_SUBTRACTION_wrapped(toks) ==
  LET m == advance(toks) IN
  IF m.toks = <<>> THEN Undefined(m.toks)
  ELSE IF Is(peek(m.toks, 1), "DATA", "INTEGER_LITERAL")
    THEN Ok(UnaryExpr(m.node, IntegerLiteral(stoi(peek(m.toks, 1).value)), TRUE), Tail(m.toks))
  ELSE IF Is(peek(m.toks, 1), "DATA", "DOUBLE_LITERAL")
    THEN Ok(UnaryExpr(m.node, DoubleLiteral(FALSE, peek(m.toks, 1).value), TRUE), Tail(m.toks))
  ELSE Throw("std::invalid_argument",
             <<"Unexpected token found after '-' operator: ", peek(m.toks, 1).plainText>>,
             Tail(m.toks))

\* case OperatorToken::SUBTRACTION of parsePrimaryExpr
parsePrimaryExpr_SUBTRACTION(toks) ==
  LET m == advance(toks) IN
  IF m.toks = <<>> THEN Undefined(m.toks)
  ELSE LET nextToken == peek(m.toks, 1) IN
       IF Is(nextToken, "DATA", "INTEGER_LITERAL")
         THEN IF stoi(nextToken.value) = -1
                THEN Throw("std::out_of_range", <<"stoi">>, Tail(m.toks))
                ELSE Ok(IntegerLiteral(-stoi(nextToken.value)), Tail(m.toks))
       ELSE IF Is(nextToken, "DATA", "DOUBLE_LITERAL")
         THEN Ok(DoubleLiteral(TRUE, nextToken.value), Tail(m.toks))
       ELSE Throw("std::invalid_argument",
                  <<"Unexpected token found after '-' operator: ", nextToken.plainText>>,
                  Tail(m.toks))

\* seeded fault: a logical not whose operand is the next primary expression
parsePrimaryExpr_NOT_primary(token, toks, u) ==
  LET operand == Call("parsePrimaryExpr", Tail(toks), u) IN
  IF operand.st # "ok" THEN operand
  ELSE Ok(UnaryExpr(token, operand.node, TRUE), operand.toks)

\* case LogicalToken::NOT of parsePrimaryExpr
parsePrimaryExpr_NOT(token, toks, u) ==
  LET operand == Call("parseExpression", Tail(toks), u) IN
  IF operand.st # "ok" THEN operand
  ELSE Ok(UnaryExpr(token, operand.node, TRUE), operand.toks)

parsePrimaryExpr(toks, u) ==
  IF toks = <<>> THEN Undefined(toks)
  ELSE LET token == peek(toks, 1) IN
  IF token.tag = "DATA" THEN
    IF token.type = "INTEGER_LITERAL"
      THEN LET a == assertToken(toks, "DataToken::INTEGER_LITERAL", "Expected integer literal") IN
           IF a.st # "ok" THEN a
           ELSE IF stoi(a.node.value) = -1
             THEN Throw("std::out_of_range", <<"stoi">>, a.toks)
             ELSE Ok(IntegerLiteral(stoi(a.node.value)), a.toks)
    ELSE IF token.type = "DOUBLE_LITERAL"
      THEN LET a == assertToken(toks, "DataToken::DOUBLE_LITERAL", "Expected double literal") IN
           IF a.st # "ok" THEN a ELSE Ok(DoubleLiteral(FALSE, a.node.value), a.toks)
    ELSE IF token.type = "BOOLEAN_LITERAL"
      THEN IF ~boolPattern(token.value)
             THEN Throw("std::invalid_argument", <<"Invalid boolean literal: ", token.value>>, toks)
             ELSE LET a == assertToken(toks, "DataToken::BOOLEAN_LITERAL",
                                       "Expected boolean literal") IN
                  IF a.st # "ok" THEN a ELSE Ok(BooleanLiteral(a.node.value = "true"), a.toks)
    ELSE IF token.type = "NULL_LITERAL"
      THEN LET a == assertToken(toks, "DataToken::NULL_LITERAL", "Expected null literal") IN
           IF a.st # "ok" THEN a ELSE Ok(NullLiteral, a.toks)
    ELSE IF token.type = "IDENTIFIER"
      THEN LET a == assertToken(toks, "DataToken::IDENTIFIER", "Expected identifier") IN
           IF a.st # "ok" THEN a ELSE Ok(Identifier(a.node), a.toks)
    ELSE UnexpectedPrimary(token, toks)
  ELSE IF token.tag = "SYNTAX" THEN
    IF token.type = "OPEN_BRACKET" THEN Call("parseArrayExpr", toks, u)
    ELSE IF token.type = "OPEN_BRACE" THEN Call("parseObjectExpr", toks, u)
    ELSE IF token.type = "AT" THEN Call("parseShortData", toks, u)
    ELSE IF token.type = "OPEN_PARENTHESIS"
      THEN LET o == assertToken(toks, "SyntaxToken::OPEN_PARENTHESIS",
                                "Expected '(' to start parenthesised expression.")
               i == ParenScan(o.toks, u.i, 0)
               next == lookAhead(o.toks, i.node + 1) IN
           IF o.st # "ok" THEN o
           ELSE IF i.st # "ok" THEN i
           ELSE IF next.st # "ok" THEN next
           ELSE IF Is(next.node, "SYNTAX", "CALLBACK")
             THEN Call("parseCallbackFunctionExpr", o.toks, u)
             ELSE LET expression == Call("parseExpression", o.toks, u)
                      c == assertToken(expression.toks, "SyntaxToken::CLOSE_PARENTHESIS",
                             "Unexpected token found inside parenthesised expression. Expected closing parenthesis.") IN
                  IF expression.st # "ok" THEN expression
                  ELSE IF c.st # "ok" THEN c
                  ELSE Ok(expression.node, c.toks)
    ELSE IF token.type = "DOUBLE_QUOTE"
      THEN LET o == assertToken(toks, "SyntaxToken::DOUBLE_QUOTE", "Expected opening double quote")
               v == assertToken(o.toks, "DataToken::STRING_LITERAL", "Expected string literal")
               c == assertToken(v.toks, "SyntaxToken::DOUBLE_QUOTE", "Expected closing double quote") IN
           IF o.st # "ok" THEN o
           ELSE IF v.st # "ok" THEN v
           ELSE IF c.st # "ok" THEN c
           ELSE Ok(StringLiteral(v.node.value), c.toks)
    ELSE IF token.type = "SINGLE_QUOTE"
      THEN LET o == assertToken(toks, "SyntaxToken::SINGLE_QUOTE", "Expected opening single quote")
               v == assertToken(o.toks, "DataToken::CHAR_LITERAL", "Expected character literal")
               c == assertToken(v.toks, "SyntaxToken::SINGLE_QUOTE", "Expected closing single quote") IN
           IF o.st # "ok" THEN o
           ELSE IF v.st # "ok" THEN v
           ELSE IF c.st # "ok" THEN c
           ELSE Ok(CharLiteral(v.node.value), c.toks)
    ELSE IF token.type = "HASHTAG"
      THEN LET o == assertToken(toks, "SyntaxToken::HASHTAG",
                                "Expected hashtag to start hex code literal")
               v == assertToken(o.toks, "DataToken::HEX_CODE_LITERAL", "Expected hex code literal") IN
           IF o.st # "ok" THEN o
           ELSE IF v.st # "ok" THEN v
           ELSE Ok(HexCodeLiteral(<<"#", v.node.value>>), v.toks)
    ELSE IF token.type = "INLINE_COMMENT"
      THEN LET c == skipComment(toks) IN IF c.st # "ok" THEN c ELSE Ok(Nullptr, c.toks)
    ELSE UnexpectedPrimary(token, toks)
  ELSE IF token.tag = "OPERATOR" THEN
    IF token.type = "SUBTRACTION" THEN parsePrimaryExpr_SUBTRACTION(toks)
    ELSE IF token.type \in {"INCREMENT", "DECREMENT"}
      THEN LET operand == Call("parsePrimaryExpr", Tail(toks), u) IN
           IF operand.st # "ok" THEN operand
           ELSE Ok(UnaryExpr(token, operand.node, TRUE), operand.toks)
    ELSE UnexpectedPrimary(token, toks)
  ELSE IF token.tag = "LOGICAL" THEN
    IF token.type = "NOT" THEN parsePrimaryExpr_NOT(token, toks, u)
    ELSE UnexpectedPrimary(token, toks)
  ELSE IF token.tag = "SHORT_NOTATION" THEN
    IF token.type \in DOMAIN shortEnumToString
      THEN Ok(Identifier([token EXCEPT !.value = shortEnumToString[token.type]]), Tail(toks))
      ELSE Throw("std::out_of_range", <<"unordered_map::at">>, Tail(toks))
  ELSE UnexpectedPrimary(token, toks)

RECURSIVE parseObjectExpr_while(_, _, _)
\* seeded fault: a loop that expects no comma after the value of a pair
parseObjectExpr_unseparated(properties, toks, u) ==
  IF toks = <<>> THEN Undefined(toks)
  ELSE IF ~isEOF(toks) /\ ~Is(peek(toks, 1), "SYNTAX", "CLOSE_BRACE")
    THEN LET key == assertToken(toks, "DataToken::IDENTIFIER", "Object literal key expected") IN
         IF key.st # "ok" THEN key
         ELSE IF key.toks = <<>> THEN Undefined(key.toks)
         ELSE IF Is(peek(key.toks, 1), "SYNTAX", "COMMA")
           THEN parseObjectExpr_while(Append(properties, Property(key.node, Nullptr)),
                                      Tail(key.toks), u)
         ELSE IF Is(peek(key.toks, 1), "SYNTAX", "CLOSE_BRACE")
           THEN parseObjectExpr_while(Append(properties, Property(key.node, Nullptr)),
                                      key.toks, u)
         ELSE LET c == assertToken(key.toks, "SyntaxToken::COLON",
                                   "Missing colon following identifier in ObjectExpr")
                  value == Call("parseExpression", c.toks, u) IN
              IF c.st # "ok" THEN c
              ELSE IF value.st # "ok" THEN value
              ELSE parseObjectExpr_while(
                     Append(properties, Property(key.node, value.node)), value.toks, u)
    ELSE Ok(properties, toks)

parseObjectExpr_while(properties, toks, u) ==
  IF toks = <<>> THEN Undefined(toks)
  ELSE IF ~isEOF(toks) /\ ~Is(peek(toks, 1), "SYNTAX", "CLOSE_BRACE")
    THEN LET key == assertToken(toks, "DataToken::IDENTIFIER", "Object literal key expected") IN
         IF key.st # "ok" THEN key
         ELSE IF key.toks = <<>> THEN Undefined(key.toks)
         ELSE IF Is(peek(key.toks, 1), "SYNTAX", "COMMA")
           THEN LET c == assertToken(key.toks, "SyntaxToken::COMMA",
                                     "Expected value chain following comma in ObjectExpr") IN
                IF c.st # "ok" THEN c
                ELSE parseObjectExpr_while(Append(properties, Property(key.node, Nullptr)),
                                           c.toks, u)
         ELSE IF Is(peek(key.toks, 1), "SYNTAX", "CLOSE_BRACE")
           THEN parseObjectExpr_while(Append(properties, Property(key.node, Nullptr)),
                                      key.toks, u)
         ELSE LET c == assertToken(key.toks, "SyntaxToken::COLON",
                                   "Missing colon following identifier in ObjectExpr")
                  value == Call("parseExpression", c.toks, u) IN
              IF c.st # "ok" THEN c
              ELSE IF value.st # "ok" THEN value
              ELSE IF value.toks = <<>> THEN Undefined(value.toks)
              ELSE LET sep == IF ~Is(peek(value.toks, 1), "SYNTAX", "CLOSE_BRACE")
                                THEN assertToken(value.toks, "SyntaxToken::COMMA",
                                       "Expected comma or closing bracket following property")
                                ELSE Ok(Nullptr, value.toks) IN
                   IF sep.st # "ok" THEN sep
                   ELSE parseObjectExpr_while(
                          Append(properties, Property(key.node, value.node)), sep.toks, u)
    ELSE Ok(properties, toks)

parseObjectExpr(toks, u) ==
  LET o == assertToken(toks, "SyntaxToken::OPEN_BRACE", "Expected opening brace for object")
      properties == parseObjectExpr_while(<<>>, o.toks, u)
      c == assertToken(properties.toks, "SyntaxToken::CLOSE_BRACE",
                       "Object literal missing closing brace.") IN
  IF o.st # "ok" THEN o
  ELSE IF properties.st # "ok" THEN properties
  ELSE IF c.st # "ok" THEN c
  ELSE Ok(ObjectLiteral(properties.node), c.toks)

RECURSIVE parseArrayExpr_while(_, _, _)
parseArrayExpr_while(elements, toks, u) ==
  IF toks = <<>> THEN Undefined(toks)
  ELSE IF ~isEOF(toks) /\ ~Is(peek(toks, 1), "SYNTAX", "CLOSE_BRACKET")
    THEN LET element == Call("parseExpression", toks, u) IN
         IF element.st # "ok" THEN element
         ELSE IF element.toks = <<>> THEN Undefined(element.toks)
         ELSE LET sep == IF ~Is(peek(element.toks, 1), "SYNTAX", "CLOSE_BRACKET")
                           THEN assertToken(element.toks, "SyntaxToken::COMMA",
                                  "Expected comma or closing bracket following array element")
                           ELSE Ok(Nullptr, element.toks) IN
              IF sep.st # "ok" THEN sep
              ELSE parseArrayExpr_while(Append(elements, element.node), sep.toks, u)
    ELSE Ok(elements, toks)

parseArrayExpr(toks, u) ==
  LET o == assertToken(toks, "SyntaxToken::OPEN_BRACKET", "Expected opening bracket for array")
      elements == parseArrayExpr_while(<<>>, o.toks, u)
      c == assertToken(elements.toks, "SyntaxToken::CLOSE_BRACKET",
                       "Array literal missing closing bracket.") IN
  IF o.st # "ok" THEN o
  ELSE IF elements.st # "ok" THEN elements
  ELSE IF c.st # "ok" THEN c
  ELSE Ok(ArrayLiteral(elements.node), c.toks)

RECURSIVE parseCallbackFunctionExpr_while(_, _)
parseCallbackFunctionExpr_while(params, toks) ==
  IF toks = <<>> THEN Undefined(toks)
  ELSE IF ~Is(peek(toks, 1), "SYNTAX", "CLOSE_PARENTHESIS")
    THEN LET c == IF Len(params) > 0
                    THEN assertToken(toks, "SyntaxToken::COMMA",
                           "Expected comma between callback function parameters.")
                    ELSE Ok(Nullptr, toks)
             p == assertToken(c.toks, "DataToken::IDENTIFIER",
                              "Expected identifier in callback function parameters.") IN
         IF c.st # "ok" THEN c
         ELSE IF p.st # "ok" THEN p
         ELSE parseCallbackFunctionExpr_while(Append(params, p.node), p.toks)
    ELSE Ok(params, toks)

parseCallbackFunctionExpr(toks, u) ==
  LET params == parseCallbackFunctionExpr_while(<<>>, toks)
      c == assertToken(params.toks, "SyntaxToken::CLOSE_PARENTHESIS",
                       "Expected closing parenthesis after callback function parameters.")
      a == assertToken(c.toks, "SyntaxToken::CALLBACK",
                       "Expected '=>' to start callback function body.") IN
  IF params.st # "ok" THEN params
  ELSE IF c.st # "ok" THEN c
  ELSE IF a.st # "ok" THEN a
  ELSE IF a.toks = <<>> THEN Undefined(a.toks)
  ELSE LET stmts ==
             IF Is(peek(a.toks, 1), "SYNTAX", "OPEN_BRACE")
               THEN LET o == assertToken(a.toks, "SyntaxToken::OPEN_BRACE",
                                         "Expected '{' to start callback function body.") IN
                    IF o.st # "ok" THEN o ELSE Call("parseStatementBlock", o.toks, u)
               ELSE LET stmt == Call("parseStatement", a.toks, u)
                        s1 == skipSemicolon(stmt.toks) IN
                    IF stmt.st # "ok" THEN stmt
                    ELSE IF s1.st # "ok" THEN s1
                    ELSE Ok(<<stmt.node>>, s1.toks) IN
       IF stmts.st # "ok" THEN stmts
       ELSE SkipSemicolonAfter(CallbackFunctionExpr(params.node, stmts.node), stmts.toks)

RECURSIVE parseShortData_object(_, _, _)
parseShortData_object(properties, toks, u) ==
  LET c == IF Len(properties) > 0
             THEN assertToken(toks, "SyntaxToken::COMMA",
                    "Expected comma between properties in short data notation.")
             ELSE Ok(Nullptr, toks)
      key == assertToken(c.toks, "DataToken::IDENTIFIER",
                         "Expected identifier key in short data notation.")
      colon == assertToken(key.toks, "SyntaxToken::COLON",
                           "Expected colon after key in short data notation.")
      value == Call("parseExpression", colon.toks, u) IN
  IF c.st # "ok" THEN c
  ELSE IF key.st # "ok" THEN key
  ELSE IF colon.st # "ok" THEN colon
  ELSE IF value.st # "ok" THEN value
  ELSE IF value.toks = <<>> THEN Undefined(value.toks)
  ELSE IF Is(peek(value.toks, 1), "SYNTAX", "COMMA")
    THEN parseShortData_object(Append(properties, Property(key.node, value.node)),
                               value.toks, u)
    ELSE Ok(Append(properties, Property(key.node, value.node)), value.toks)

RECURSIVE parseShortData_array(_, _, _)
parseShortData_array(elements, toks, u) ==
  LET c == IF Len(elements) > 0
             THEN assertToken(toks, "SyntaxToken::COMMA",
                    "Expected comma between elements in short data notation.")
             ELSE Ok(Nullptr, toks)
      element == Call("parseExpression", c.toks, u) IN
  IF c.st # "ok" THEN c
  ELSE IF element.st # "ok" THEN element
  ELSE IF element.toks = <<>> THEN Undefined(element.toks)
  ELSE IF Is(peek(element.toks, 1), "SYNTAX", "COMMA")
    THEN parseShortData_array(Append(elements, element.node), element.toks, u)
    ELSE Ok(Append(elements, element.node), element.toks)

parseShortData(toks, u) ==
  LET a == assertToken(toks, "SyntaxToken::AT", "Expected '@' to start short data notation.")
      second == lookAhead(a.toks, 2) IN
  IF a.st # "ok" THEN a
  ELSE IF second.st # "ok" THEN second
  ELSE IF Is(second.node, "SYNTAX", "COLON")
    THEN LET properties == parseShortData_object(<<>>, a.toks, u)
             s1 == assertToken(properties.toks, "SyntaxToken::SEMICOLON",
                               "Expected semicolon after short data notation.") IN
         IF properties.st # "ok" THEN properties
         ELSE IF s1.st # "ok" THEN s1
         ELSE Ok(ObjectLiteral(properties.node), s1.toks)
    ELSE LET elements == parseShortData_array(<<>>, a.toks, u)
             s1 == assertToken(elements.toks, "SyntaxToken::SEMICOLON",
                               "Expected semicolon after short data notation.") IN
         IF elements.st # "ok" THEN elements
         ELSE IF s1.st # "ok" THEN s1
         ELSE Ok(ArrayLiteral(elements.node), s1.toks)

(***************************************************************************)
(* Statement grammar.                                                      *)
(***************************************************************************)
RECURSIVE parseStatementBlock_while(_, _, _)
parseStatementBlock_while(statements, toks, u) ==
  IF toks = <<>> THEN Undefined(toks)
  ELSE IF ~isEOF(toks) /\ ~Is(peek(toks, 1), "SYNTAX", "CLOSE_BRACE")
    THEN LET stmt == Call("parseStatement", toks, u)
             s1 == skipSemicolon(stmt.toks) IN
         IF stmt.st # "ok" THEN stmt
         ELSE IF s1.st # "ok" THEN s1
         ELSE parseStatementBlock_while(Append(statements, stmt.node), s1.toks, u)
    ELSE Ok(statements, toks)

parseStatementBlock(toks, u) ==
  LET statements == parseStatementBlock_while(<<>>, toks, u)
      c == assertToken(statements.toks, "SyntaxToken::CLOSE_BRACE",
                       "Expected '}' to close statement block") IN
  IF statements.st # "ok" THEN statements
  ELSE IF c.st # "ok" THEN c
  ELSE Ok(statements.node, c.toks)

\* for (arg : args): the parameter tokens, or the failure of the first bad argument
RECURSIVE FunctionParams(_, _, _)
FunctionParams(args, params, toks) ==
  IF args = <<>> THEN Ok(params, toks)
  ELSE IF Head(args) = Nullptr THEN Undefined(toks)
  ELSE IF Head(args).kind # "Identifier"
    THEN Throw("std::invalid_argument",
               <<"Expected identifiers in function arguments list.">>, toks)
  ELSE FunctionParams(Tail(args), Append(params, Head(args).identifier), toks)

parseFunctionDeclaration(toks, u) ==
  LET f == assertToken(toks, "KeywordToken::FUNCTION",
                       "Expected 'fn' keyword to start function declaration.")
      name == assertToken(f.toks, "DataToken::IDENTIFIER",
                          "Expected function name following fn keyword")
      args == Call("parseArgs", name.toks, u)
      params == FunctionParams(args.node, <<>>, args.toks)
      o == assertToken(params.toks, "SyntaxToken::OPEN_BRACE",
                       "Expected function body following declaration")
      stmts == Call("parseStatementBlock", o.toks, u) IN
  IF f.st # "ok" THEN f
  ELSE IF name.st # "ok" THEN name
  ELSE IF args.st # "ok" THEN args
  ELSE IF params.st # "ok" THEN params
  ELSE IF o.st # "ok" THEN o
  ELSE IF stmts.st # "ok" THEN stmts
  ELSE Ok(FunctionDeclaration(name.node, params.node, stmts.node), stmts.toks)

parseReturnStatement(toks, u) ==
  LET r == assertToken(toks, "KeywordToken::RETURN",
                       "Expected 'return' keyword to start return statement.") IN
  IF r.st # "ok" THEN r
  ELSE IF r.toks = <<>> THEN Undefined(r.toks)
  ELSE LET value == IF ~Is(peek(r.toks, 1), "SYNTAX", "SEMICOLON")
                      THEN Call("parseExpression", r.toks, u)
                      ELSE Ok(Nullptr, r.toks)
           s1 == assertToken(value.toks, "SyntaxToken::SEMICOLON",
                             "Expected ';' after return statement.") IN
       IF value.st # "ok" THEN value
       ELSE IF s1.st # "ok" THEN s1
       ELSE Ok(ReturnStmt(value.node), s1.toks)

RECURSIVE parseVarDeclaration_while(_, _, _, _)
parseVarDeclaration_while(type, declarations, toks, u) ==
  LET identifier == assertToken(toks, "DataToken::IDENTIFIER",
                                "Expected identifier name following var | const keywords.") IN
  IF identifier.st # "ok" THEN identifier
  ELSE IF identifier.toks = <<>> THEN Undefined(identifier.toks)
  ELSE LET value ==
             IF Is(peek(identifier.toks, 1), "OPERATOR", "ASSIGN")
               THEN LET a == assertToken(identifier.toks, "OperatorToken::ASSIGN",
                              "Expected assign token following identifier in var declaration.") IN
                    IF a.st # "ok" THEN a ELSE Call("parseExpression", a.toks, u)
               ELSE Ok(Nullptr, identifier.toks)
           declared == Append(declarations, <<identifier.node, value.node>>) IN
       IF value.st # "ok" THEN value
       ELSE IF value.toks = <<>> THEN Undefined(value.toks)
       ELSE IF Is(peek(value.toks, 1), "SYNTAX", "COMMA")
         THEN LET c == assertToken(value.toks, "SyntaxToken::COMMA",
                                   "Expected comma for chaining multiple declarations.") IN
              IF c.st # "ok" THEN c
              ELSE parseVarDeclaration_while(type, declared, c.toks, u)
         ELSE Ok(VarDeclaration(type, declared), value.toks)

\* seeded fault: a declaration that records var as its qualifier whatever it read
parseVarDeclaration_unqualified(toks, u) ==
  LET type == advance(toks) IN
  IF type.st # "ok" THEN type
  ELSE parseVarDeclaration_while(T.Var, <<>>, type.toks, u)

parseVarDeclaration(toks, u) ==
  LET type == advance(toks) IN
  IF type.st # "ok" THEN type
  ELSE parseVarDeclaration_while(type.node, <<>>, type.toks, u)

\* "(" condition ")" "{" block "}": the <<condition, body>> pair of a clause or a loop
ConditionAndBlock(toks, u, msgOpen, msgClose, msgBrace) ==
  LET o == assertToken(toks, "SyntaxToken::OPEN_PARENTHESIS", msgOpen)
      condition == Call("parseLogicalExpr", o.toks, u)
      c == assertToken(condition.toks, "SyntaxToken::CLOSE_PARENTHESIS", msgClose)
      b == assertToken(c.toks, "SyntaxToken::OPEN_BRACE", msgBrace)
      stmts == Call("parseStatementBlock", b.toks, u) IN
  IF o.st # "ok" THEN o
  ELSE IF condition.st # "ok" THEN condition
  ELSE IF c.st # "ok" THEN c
  ELSE IF b.st # "ok" THEN b
  ELSE IF stmts.st # "ok" THEN stmts
  ELSE Ok(<<condition.node, stmts.node>>, stmts.toks)

RECURSIVE parseConditionalStatement_elif(_, _, _)
parseConditionalStatement_elif(elifClauses, toks, u) ==
  IF toks = <<>> THEN Undefined(toks)
  ELSE IF Is(peek(toks, 1), "KEYWORD", "ELSE_IF")
    THEN LET e == assertToken(toks, "KeywordToken::ELSE_IF",
                              "Expected 'elif' keyword to start elif clause.")
             clause == ConditionAndBlock(e.toks, u, "Expected '(' after 'elif'.",
                         "Expected ')' after elif condition.",
                         "Expected '{' after elif condition.") IN
         IF e.st # "ok" THEN e
         ELSE IF clause.st # "ok" THEN clause
         ELSE parseConditionalStatement_elif(Append(elifClauses, clause.node), clause.toks, u)
    ELSE Ok(elifClauses, toks)

\* the optional else clause, after the if clause and the elif clauses
parseConditionalStatement_else(ifClause, elifClauses, toks, u) ==
  IF toks = <<>> THEN Undefined(toks)
  ELSE LET elseBody ==
             IF Is(peek(toks, 1), "KEYWORD", "ELSE")
               THEN LET e == assertToken(toks, "KeywordToken::ELSE",
                                         "Expected 'else' keyword to start else clause.")
                        b == assertToken(e.toks, "SyntaxToken::OPEN_BRACE",
                                         "Expected '{' after 'else'.") IN
                    IF e.st # "ok" THEN e
                    ELSE IF b.st # "ok" THEN b
                    ELSE Call("parseStatementBlock", b.toks, u)
               ELSE Ok(<<>>, toks) IN
       IF elseBody.st # "ok" THEN elseBody
       ELSE Ok(ConditionalStmt(ifClause, elifClauses, elseBody.node), elseBody.toks)

parseConditionalStatement(toks, u) ==
  LET k == assertToken(toks, "KeywordToken::IF",
                       "Expected 'if' keyword to start conditional statement.")
      ifClause == ConditionAndBlock(k.toks, u,
                    "Expected open parenthesis following 'if' keyword.",
                    "Expected closing parenthesis following if condition.",
                    "Expected '{' after if condition.")
      elifClauses == parseConditionalStatement_elif(<<>>, ifClause.toks, u) IN
  IF k.st # "ok" THEN k
  ELSE IF ifClause.st # "ok" THEN ifClause
  ELSE IF elifClauses.st # "ok" THEN elifClauses
  ELSE parseConditionalStatement_else(ifClause.node, elifClauses.node, elifClauses.toks, u)

parseWhileStatement(toks, u) ==
  LET k == assertToken(toks, "KeywordToken::WHILE",
                       "Expected 'while' keyword to start while statement.")
      loop == ConditionAndBlock(k.toks, u, "Expected '(' after 'while' keyword.",
                "Expected ')' after while condition.", "Expected '{' after while condition.") IN
  IF k.st # "ok" THEN k
  ELSE IF loop.st # "ok" THEN loop
  ELSE Ok(WhileStmt(loop.node[1], loop.node[2]), loop.toks)

parseDoWhileStatement(toks, u) ==
  LET k == assertToken(toks, "KeywordToken::DO",
                       "Expected 'do' keyword to start do-while statement.")
      b == assertToken(k.toks, "SyntaxToken::OPEN_BRACE", "Expected '{' after 'do' keyword.")
      stmts == Call("parseStatementBlock", b.toks, u)
      w == assertToken(stmts.toks, "KeywordToken::WHILE",
                       "Expected 'while' keyword after do-while body.")
      o == assertToken(w.toks, "SyntaxToken::OPEN_PARENTHESIS",
                       "Expected '(' after 'while' keyword.")
      condition == Call("parseLogicalExpr", o.toks, u)
      c == assertToken(condition.toks, "SyntaxToken::CLOSE_PARENTHESIS",
                       "Expected ')' after while condition.")
      s1 == assertToken(c.toks, "SyntaxToken::SEMICOLON",
                        "Expected ';' after do-while statement.") IN
  IF k.st # "ok" THEN k
  ELSE IF b.st # "ok" THEN b
  ELSE IF stmts.st # "ok" THEN stmts
  ELSE IF w.st # "ok" THEN w
  ELSE IF o.st # "ok" THEN o
  ELSE IF condition.st # "ok" THEN condition
  ELSE IF c.st # "ok" THEN c
  ELSE IF s1.st # "ok" THEN s1
  ELSE Ok(DoWhileStmt(condition.node, stmts.node), s1.toks)

\* keyword iterable ")" "{" block "}" of a for-in / for-of loop: <<iterable, body>>
IterableAndBlock(toks, u, keyword, msgKeyword, msgClose, msgBrace) ==
  LET k == assertToken(toks, keyword, msgKeyword)
      iterable == Call("parseExpression", k.toks, u)
      c == assertToken(iterable.toks, "SyntaxToken::CLOSE_PARENTHESIS", msgClose)
      b == assertToken(c.toks, "SyntaxToken::OPEN_BRACE", msgBrace)
      stmts == Call("parseStatementBlock", b.toks, u) IN
  IF k.st # "ok" THEN k
  ELSE IF iterable.st # "ok" THEN iterable
  ELSE IF c.st # "ok" THEN c
  ELSE IF b.st # "ok" THEN b
  ELSE IF stmts.st # "ok" THEN stmts
  ELSE Ok(<<iterable.node, stmts.node>>, stmts.toks)

\* seeded fault: a for statement that takes whatever follows the iterator for "in"
parseForStatement_alwaysIn(toks, u) ==
  LET k == assertToken(toks, "KeywordToken::FOR", "Expected 'for' keyword to start for statement.")
      o == assertToken(k.toks, "SyntaxToken::OPEN_PARENTHESIS",
                       "Expected '(' after 'for' keyword.")
      iterator == Call("parseVarDeclaration", o.toks, u) IN
  IF k.st # "ok" THEN k
  ELSE IF o.st # "ok" THEN o
  ELSE IF iterator.st # "ok" THEN iterator
  ELSE IF iterator.toks = <<>> THEN Undefined(iterator.toks)
  ELSE LET loop == IterableAndBlock(iterator.toks, u, peek(iterator.toks, 1).plainText,
                     "Expected 'in' keyword after for loop iterator.",
                     "Expected ')' after 'in' expression.",
                     "Expected '{' after for-in loop.") IN
       IF loop.st # "ok" THEN loop
       ELSE Ok(ForInStmt(iterator.node, loop.node[1], loop.node[2]), loop.toks)

parseForStatement(toks, u) ==
  LET k == assertToken(toks, "KeywordToken::FOR", "Expected 'for' keyword to start for statement.")
      o == assertToken(k.toks, "SyntaxToken::OPEN_PARENTHESIS",
                       "Expected '(' after 'for' keyword.")
      iterator == Call("parseVarDeclaration", o.toks, u) IN
  IF k.st # "ok" THEN k
  ELSE IF o.st # "ok" THEN o
  ELSE IF iterator.st # "ok" THEN iterator
  ELSE IF iterator.toks = <<>> THEN Undefined(iterator.toks)
  ELSE IF Is(peek(iterator.toks, 1), "KEYWORD", "IN")
    THEN LET loop == IterableAndBlock(iterator.toks, u, "KeywordToken::IN",
                       "Expected 'in' keyword after for loop iterator.",
                       "Expected ')' after 'in' expression.",
                       "Expected '{' after for-in loop.") IN
         IF loop.st # "ok" THEN loop
         ELSE Ok(ForInStmt(iterator.node, loop.node[1], loop.node[2]), loop.toks)
  ELSE IF Is(peek(iterator.toks, 1), "KEYWORD", "OF")
    THEN LET loop == IterableAndBlock(iterator.toks, u, "KeywordToken::OF",
                       "Expected 'of' keyword after for loop iterator.",
                       "Expected ')' after 'of' expression.",
                       "Expected '{' after for-of loop.") IN
         IF loop.st # "ok" THEN loop
         ELSE Ok(ForOfStmt(iterator.node, loop.node[1], loop.node[2]), loop.toks)
  ELSE LET s1 == assertToken(iterator.toks, "SyntaxToken::SEMICOLON",
                             "Expected ';' after for loop iterator.")
           condition == Call("parseExpression", s1.toks, u)
           s2 == assertToken(condition.toks, "SyntaxToken::SEMICOLON",
                             "Expected ';' after for loop condition.")
           increment == Call("parseExpression", s2.toks, u)
           c == assertToken(increment.toks, "SyntaxToken::CLOSE_PARENTHESIS",
                            "Expected ')' after for loop increment statement.")
           b == assertToken(c.toks, "SyntaxToken::OPEN_BRACE",
                            "Expected '{' after for loop increment statement.")
           stmts == Call("parseStatementBlock", b.toks, u) IN
       IF s1.st # "ok" THEN s1
       ELSE IF condition.st # "ok" THEN condition
       ELSE IF s2.st # "ok" THEN s2
       ELSE IF increment.st # "ok" THEN increment
       ELSE IF c.st # "ok" THEN c
       ELSE IF b.st # "ok" THEN b
       ELSE IF stmts.st # "ok" THEN stmts
       ELSE Ok(ForStmt(iterator.node, condition.node, increment.node, stmts.node), stmts.toks)

RECURSIVE parseLogStatement_do(_, _, _)
parseLogStatement_do(message, toks, u) ==
  LET c == IF Len(message) > 0
             THEN assertToken(toks, "SyntaxToken::COMMA",
                    "Expected ',' between message expressions in log function call.")
             ELSE Ok(Nullptr, toks)
      e == Call("parseExpression", c.toks, u) IN
  IF c.st # "ok" THEN c
  ELSE IF e.st # "ok" THEN e
  ELSE IF e.toks = <<>> THEN Undefined(e.toks)
  ELSE IF Is(peek(e.toks, 1), "SYNTAX", "COMMA")
    THEN parseLogStatement_do(Append(message, e.node), e.toks, u)
    ELSE Ok(Append(message, e.node), e.toks)

\* seeded fault: a log statement that never splits a colour off its arguments
parseLogStatement_plain(toks, u) ==
  LET logType == advance(toks)
      o == assertToken(logType.toks, "SyntaxToken::OPEN_PARENTHESIS",
                       "Expected '(' after log function call.")
      message == parseLogStatement_do(<<>>, o.toks, u)
      c == assertToken(message.toks, "SyntaxToken::CLOSE_PARENTHESIS",
                       "Expected ')' after log function call.") IN
  IF logType.st # "ok" THEN logType
  ELSE IF o.st # "ok" THEN o
  ELSE IF message.st # "ok" THEN message
  ELSE IF c.st # "ok" THEN c
  ELSE SkipSemicolonAfter(LogStmt(logType.node, message.node, Nullptr), c.toks)

parseLogStatement(toks, u) ==
  LET logType == advance(toks)
      o == assertToken(logType.toks, "SyntaxToken::OPEN_PARENTHESIS",
                       "Expected '(' after log function call.")
      message == parseLogStatement_do(<<>>, o.toks, u) IN
  IF logType.st # "ok" THEN logType
  ELSE IF o.st # "ok" THEN o
  ELSE IF message.st # "ok" THEN message
  ELSE LET colored == Is(logType.node, "LOG", "COLORED")
           colorExpr == IF colored THEN message.node[Len(message.node)] ELSE Nullptr
           rest == IF colored THEN SubSeq(message.node, 1, Len(message.node) - 1)
                              ELSE message.node
           c == assertToken(message.toks, "SyntaxToken::CLOSE_PARENTHESIS",
                            "Expected ')' after log function call.") IN
       IF colored /\ colorExpr = Nullptr THEN Undefined(message.toks)
       ELSE IF colored /\ colorExpr.kind # "HexCodeLiteral"
         THEN Throw("std::invalid_argument",
                    <<"Expected hex code literal as last argument for a colored log.">>,
                    message.toks)
       ELSE IF c.st # "ok" THEN c
       ELSE SkipSemicolonAfter(LogStmt(logType.node, rest, colorExpr), c.toks)

parseStatement(toks, u) ==
  IF toks = <<>> THEN Undefined(toks)
  ELSE IF peek(toks, 1).tag = "KEYWORD"
    THEN IF peek(toks, 1).type \in {"CONSTANT", "VARIABLE"} THEN Call("parseVarDeclaration", toks, u)
         ELSE IF peek(toks, 1).type = "FUNCTION" THEN parseFunctionDeclaration(toks, u)
         ELSE IF peek(toks, 1).type = "IF" THEN parseConditionalStatement(toks, u)
         ELSE IF peek(toks, 1).type = "WHILE" THEN parseWhileStatement(toks, u)
         ELSE IF peek(toks, 1).type = "DO" THEN parseDoWhileStatement(toks, u)
         ELSE IF peek(toks, 1).type = "FOR" THEN parseForStatement(toks, u)
         ELSE IF peek(toks, 1).type = "RETURN" THEN parseReturnStatement(toks, u)
         ELSE Call("parseExpression", toks, u)
  ELSE IF peek(toks, 1).tag = "LOG" THEN parseLogStatement(toks, u)
  ELSE IF Is(peek(toks, 1), "SYNTAX", "INLINE_COMMENT")
    THEN LET c == skipComment(toks) IN IF c.st # "ok" THEN c ELSE Ok(Nullptr, c.toks)
  ELSE Call("parseExpression", toks, u)

(***************************************************************************)
(* The calls between the parsing functions.                                *)
(***************************************************************************)
Call(fn, toks, u) ==
  CASE fn = "parseStatement" -> parseStatement(toks, u)
    [] fn = "parseStatementBlock" -> parseStatementBlock(toks, u)
    [] fn = "parseVarDeclaration" -> parseVarDeclaration(toks, u)
    [] fn = "parseExpression" -> parseExpression(toks, u)
    [] fn = "parseAssignmentExpr" -> parseAssignmentExpr(toks, u)
    [] fn = "parseTernaryExpr" -> parseTernaryExpr(toks, u)
    [] fn = "parseLogicalExpr" -> parseLogicalExpr(toks, u)
    [] fn = "parseEqualityExpr" -> parseEqualityExpr(toks, u)
    [] fn = "parseRelationalExpr" -> parseRelationalExpr(toks, u)
    [] fn = "parseAdditiveExpr" -> parseAdditiveExpr(toks, u)
    [] fn = "parseMultiplicativeExpr" -> parseMultiplicativeExpr(toks, u)
    [] fn = "parsePowerExpr" -> parsePowerExpr(toks, u)
    [] fn = "parseCallMemberExpr" -> parseCallMemberExpr(toks, u)
    [] fn = "parseArgs" -> parseArgs(toks, u)
    [] fn = "parseShortArgs" -> parseShortArgs(toks, u)
    [] fn = "parseArgumentsList" -> parseArgumentsList(toks, u)
    [] fn = "parseMemberExpr" -> parseMemberExpr(toks, u)
    [] fn = "parsePrimaryExpr" -> parsePrimaryExpr(toks, u)
    [] fn = "parseObjectExpr" -> parseObjectExpr(toks, u)
    [] fn = "parseArrayExpr" -> parseArrayExpr(toks, u)
    [] fn = "parseCallbackFunctionExpr" -> parseCallbackFunctionExpr(toks, u)
    [] fn = "parseShortData" -> parseShortData(toks, u)

Call4(fn, caller, method, toks, u) ==
  CASE fn = "parseCallExpr" -> parseCallExpr(caller, method, toks, u)
    [] fn = "parseShortExpr" -> parseShortExpr(caller, method, toks, u)

(***************************************************************************)
(* The token sequences the model hands to the parser.  A shape names a     *)
(* family and a code, a sequence of numbers the family decodes.            *)
(***************************************************************************)
MaxRaw == 4
MaxParen == 5
MaxOperators == 2
MaxStmts == 2
MaxSuffixes == 5
MaxGarbage == 2
MaxBindings == 2
MaxLog == 4
MaxEntries == 3
MaxFor == 4
MaxPrefix == 3
MaxAssign == 3
MaxAccess == 3
MaxPipe == 3
MaxUnary == 3
MaxReturn == 2
MaxIntegers == 2

Codes(k, n) == UNION {[1..m -> 1..k] : m \in 0..n}

RECURSIVE Flatten(_)
Flatten(seqs) == IF seqs = <<>> THEN <<>> ELSE Head(seqs) \o Flatten(Tail(seqs))

Wrapped(toks) == <<T.Init>> \o toks \o <<T.Eof>>

\* family "raw": any short sequence, with or without the INIT and EOF markers
RawAlphabet == <<T.Init, T.Eof, TId("a"), T.Plus, T.For, T.LParen, T.Null>>
BuildRaw(code) == [j \in 1..Len(code) |-> RawAlphabet[code[j]]]

\* family "paren": an opening parenthesis, then closing parentheses, identifiers
\* and callback arrows, between the markers
ParenAlphabet == <<T.RParen, TId("a"), T.Arrow>>
BuildParen(code) == Wrapped(<<T.LParen>> \o [j \in 1..Len(code) |-> ParenAlphabet[code[j]]])

\* family "binary": operand (operator operand)*, one binary operator per code entry
BinaryOperators ==
  <<T.And, T.Or, T.Eq, T.Neq, T.Less, T.Greater, T.LessEq, T.GreaterEq,
    T.Plus, T.Minus, T.Mul, T.Div, T.Mod, T.Pow>>
Operand(j) == IF j % 2 = 0 THEN TInt(<<j>>) ELSE TId(<<"a", "b", "c", "d", "e">>[(j + 1) \div 2])
BuildBinary(code) ==
  Wrapped(<<Operand(1)>> \o
          Flatten([j \in 1..Len(code) |-> <<BinaryOperators[code[j]], Operand(j + 1)>>]))

\* family "chain": an identifier followed by member / call / postfix suffixes
SuffixName(j) == <<"b", "c", "d", "e">>[(j + 1) \div 2]
Suffix(kind, j) ==
  CASE kind = 1 -> <<T.Dot, TId(SuffixName(j))>>
    [] kind = 2 -> <<T.LParen, TInt(<<j \div 2>>), T.RParen>>
    [] kind = 3 -> <<T.LBracket, TInt(<<j \div 2>>), T.RBracket>>
    [] kind = 4 -> <<T.Inc>>
BuildChain(code) ==
  Wrapped(<<TId("a")>> \o Flatten([j \in 1..Len(code) |-> Suffix(code[j], j)]))

\* family "stmts": statements and comments, each with or without one terminator
StatementPool ==
  << <<TId("a")>>,
     <<T.Inc, TId("b")>>,
     <<T.Var, TId("x"), T.Assign, TInt(<<1>>)>>,
     <<T.Return, TId("c"), T.Semi>>,
     <<TId("d"), T.Assign, TInt(<<2>>)>>,
     <<T.Comment, T.CommentLit>>,
     <<T.Comment>> >>
PoolSize == Len(StatementPool)
StmtIndex(c) == ((c - 1) \div 2) + 1
Terminated(c) == c % 2 = 0
IsComment(c) == Head(StatementPool[StmtIndex(c)]) = T.Comment
BuildStmts(code) ==
  Wrapped(Flatten([j \in 1..Len(code) |->
            StatementPool[StmtIndex(code[j])] \o
              (IF Terminated(code[j]) THEN <<T.Semi>> ELSE <<>>)]))

\* families "var" and "const": one declaration of bindings x, y, ..., the j-th
\* without initializer (code 1) or with the initializer j (code 2), then ";"
BindingName(j) == <<"x", "y", "z", "w">>[j]
Binding(c, j) ==
  (IF j > 1 THEN <<T.Comma>> ELSE <<>>) \o <<TId(BindingName(j))>> \o
  (IF c = 2 THEN <<T.Assign, TInt(<<j>>)>> ELSE <<>>)
BuildDeclaration(keyword, code) ==
  IF code = <<>> THEN Wrapped(<<>>)
  ELSE Wrapped(<<keyword>> \o Flatten([j \in 1..Len(code) |-> Binding(code[j], j)]) \o <<T.Semi>>)

\* family "log": a log statement; code[1] names the log function, each further
\* entry one argument: an identifier, an integer, a hex colour or a string
LogFunctions == <<T.Log, T.Logc, T.Warn, T.Error>>
LogArgument(c, j) ==
  (IF j > 2 THEN <<T.Comma>> ELSE <<>>) \o
  CASE c = 1 -> <<TId("a")>>
    [] c = 2 -> <<TInt(<<j>>)>>
    [] c = 3 -> <<T.Hash, THex("fff")>>
    [] c = 4 -> <<T.DQuote, TString("s"), T.DQuote>>
BuildLog(code) ==
  IF code = <<>> THEN Wrapped(<<>>)
  ELSE Wrapped(<<LogFunctions[code[1]], T.LParen>> \o
               Flatten([j \in 1..(Len(code) - 1) |-> LogArgument(code[j + 1], j + 1)]) \o <<T.RParen>>)

\* family "object": an object literal; entry j is the bare key (codes 1, 3) or
\* the pair key: 1 (codes 2, 4), followed by a comma (codes 1, 2) or not
ObjectEntry(c, j) ==
  <<TId(BindingName(j))>> \o
  (IF c \in {2, 4} THEN <<T.Colon, TInt(<<1>>)>> ELSE <<>>) \o
  (IF c \in {1, 2} THEN <<T.Comma>> ELSE <<>>)
BuildObject(code) ==
  Wrapped(<<T.LBrace>> \o Flatten([j \in 1..Len(code) |-> ObjectEntry(code[j], j)]) \o
          <<T.RBrace>>)

\* family "for": for ( iterator keyword iterable ) { statements }; code[1] is the
\* keyword (in, of, or ";" with the clause "; x++" added after the iterable),
\* code[2] the iterator, code[3] the iterable, each further entry a statement
ForKeywords == <<T.In, T.Of, T.Semi>>
ForIterators == << <<T.Var, TId("x")>>, <<T.Const, TId("x")>>,
                   <<T.Var, TId("x"), T.Assign, TInt(<<0>>)>> >>
ForIterables == << <<TId("a")>>, <<TId("a"), T.Dot, TId("b")>>, <<TInt(<<1>>)>> >>
ForStatements == << <<TId("b"), T.Semi>>, <<TId("c")>>, <<T.Comment, T.CommentLit>> >>
BuildFor(code) ==
  IF Len(code) < 3 THEN Wrapped(<<>>)
  ELSE Wrapped(<<T.For, T.LParen>> \o ForIterators[code[2]] \o <<ForKeywords[code[1]]>> \o
               ForIterables[code[3]] \o
               (IF code[1] = 3 THEN <<T.Semi, TId("x"), T.Inc>> ELSE <<>>) \o
               <<T.RParen, T.LBrace>> \o
               Flatten([j \in 1..(Len(code) - 3) |-> ForStatements[code[j + 3]]]) \o
               <<T.RBrace>>)

\* family "prefix": a prefix operator (++ or --) on the identifier a; each
\* further entry adds the member access . b (code 1) or the power ** b (code 2)
PrefixOperators == <<T.Inc, T.Dec>>
PrefixSuffix(c) == IF c = 1 THEN <<T.Dot, TId("b")>> ELSE <<T.Pow, TId("b")>>
BuildPrefix(code) ==
  IF code = <<>> THEN Wrapped(<<>>)
  ELSE Wrapped(<<PrefixOperators[code[1]], TId("a")>> \o
               Flatten([j \in 1..(Len(code) - 1) |-> PrefixSuffix(code[j + 1])]))

\* family "assign": an operand, then per code entry an assignment operator and
\* the next operand (codes 1..7) or a terminator (code 8)
AssignmentOperators ==
  <<T.Assign, T.AddAssign, T.SubAssign, T.MulAssign, T.DivAssign, T.ModAssign, T.PowAssign>>
BuildAssign(code) ==
  Wrapped(<<Operand(1)>> \o
          Flatten([j \in 1..Len(code) |->
                     IF code[j] = 8 THEN <<T.Semi>>
                     ELSE <<AssignmentOperators[code[j]], Operand(j + 1)>>]))

\* family "access": the identifier a followed by suffixes: a call without
\* arguments, a dot with an identifier or with an integer, a bracket access, a
\* pipe with a short-notation call or with an identifier
AccessSuffixes ==
  << <<T.LParen, T.RParen>>,
     <<T.Dot, TId("b")>>,
     <<T.Dot, TInt(<<1>>)>>,
     <<T.LBracket, TInt(<<0>>), T.RBracket>>,
     <<T.Pipe, TShort("LENGTH"), T.LParen, T.RParen>>,
     <<T.Pipe, TId("b"), T.LParen, T.RParen>> >>
BuildAccess(code) ==
  Wrapped(<<TId("a")>> \o Flatten([j \in 1..Len(code) |-> AccessSuffixes[code[j]]]))

\* family "pipe": a call of length on a, in the short form a |> LENGTH ( args )
\* (code[1] = 1) or the verbose form a . length ( args ) (code[1] = 2); each
\* further entry is one argument, the identifier b (1) or the integer j (2)
PipeForms == << <<T.Pipe, TShort("LENGTH")>>, <<T.Dot, TId("length")>> >>
PipeArgument(c, j) ==
  (IF j > 2 THEN <<T.Comma>> ELSE <<>>) \o (IF c = 1 THEN <<TId("b")>> ELSE <<TInt(<<j>>)>>)
BuildPipe(code) ==
  IF code = <<>> THEN Wrapped(<<>>)
  ELSE Wrapped(<<TId("a")>> \o PipeForms[code[1]] \o <<T.LParen>> \o
               Flatten([j \in 1..(Len(code) - 1) |-> PipeArgument(code[j + 1], j + 1)]) \o
               <<T.RParen>>)

\* family "unary": a prefix operator (-, ++, --, !), an operand (the integer 5,
\* the double 1.5, the identifier a, or an opening parenthesis) and per further
\* entry a binary continuation, && b (odd codes) or == b (even codes)
UnaryOperators == <<T.Minus, T.Inc, T.Dec, T.Not>>
UnaryOperands == <<TInt(<<5>>), TDouble("1.5"), TId("a"), T.LParen>>
BuildUnary(code) ==
  IF Len(code) < 2 THEN Wrapped(<<>>)
  ELSE Wrapped(<<UnaryOperators[code[1]], UnaryOperands[code[2]]>> \o
               Flatten([j \in 1..(Len(code) - 2) |->
                          <<IF code[j + 2] % 2 = 1 THEN T.And ELSE T.Eq, TId("b")>>]))

\* family "return": one statement return E ; per code entry, E being nothing,
\* the identifier a, the sum a + 1, the assignment a = 1 or the compound a += 1
ReturnExpressions ==
  << <<>>,
     <<TId("a")>>,
     <<TId("a"), T.Plus, TInt(<<1>>)>>,
     <<TId("a"), T.Assign, TInt(<<1>>)>>,
     <<TId("a"), T.AddAssign, TInt(<<1>>)>> >>
BuildReturn(code) ==
  Wrapped(Flatten([j \in 1..Len(code) |->
                     <<T.Return>> \o ReturnExpressions[code[j]] \o <<T.Semi>>]))

\* family "integer": one statement per code entry, an integer literal of the
\* text (c + 1) \div 2 of IntegerTexts, behind a minus when c is even, then ";"
IntegerTexts ==
  << <<0>>, <<7>>, <<2, 1, 4, 7, 4, 8, 3, 6, 4, 7>>, <<2, 1, 4, 7, 4, 8, 3, 6, 4, 8>>,
     <<9, 9, 9, 9, 9, 9, 9, 9, 9, 9, 9>> >>
BuildInteger(code) ==
  Wrapped(Flatten([j \in 1..Len(code) |->
                     (IF code[j] % 2 = 0 THEN <<T.Minus>> ELSE <<>>) \o
                     <<TInt(IntegerTexts[(code[j] + 1) \div 2]), T.Semi>>]))

\* shape is a member of the family fam with a code over 1..k of length at most n
ShapeOf(fam, k, n) == \E code \in Codes(k, n) : shape = [fam |-> fam, code |-> code]

Shapes ==
  \/ ShapeOf("raw", Len(RawAlphabet), MaxRaw)
  \/ ShapeOf("paren", Len(ParenAlphabet), MaxParen)
  \/ ShapeOf("binary", Len(BinaryOperators), MaxOperators)
  \/ ShapeOf("chain", 4, MaxSuffixes)
  \/ ShapeOf("stmts", 2 * PoolSize, MaxStmts)
  \/ ShapeOf("var", 2, MaxBindings)
  \/ ShapeOf("const", 2, MaxBindings)
  \/ ShapeOf("log", 4, MaxLog)
  \/ ShapeOf("object", 4, MaxEntries)
  \/ ShapeOf("for", 3, MaxFor)
  \/ ShapeOf("prefix", 2, MaxPrefix)
  \/ ShapeOf("assign", 8, MaxAssign)
  \/ ShapeOf("access", Len(AccessSuffixes), MaxAccess)
  \/ ShapeOf("pipe", 2, MaxPipe)
  \/ ShapeOf("unary", 4, MaxUnary)
  \/ ShapeOf("return", Len(ReturnExpressions), MaxReturn)
  \/ ShapeOf("integer", 2 * Len(IntegerTexts), MaxIntegers)

Build(s) ==
  CASE s.fam = "raw" -> BuildRaw(s.code)
    [] s.fam = "paren" -> BuildParen(s.code)
    [] s.fam = "binary" -> BuildBinary(s.code)
    [] s.fam = "chain" -> BuildChain(s.code)
    [] s.fam = "stmts" -> BuildStmts(s.code)
    [] s.fam = "var" -> BuildDeclaration(T.Var, s.code)
    [] s.fam = "const" -> BuildDeclaration(T.Const, s.code)
    [] s.fam = "log" -> BuildLog(s.code)
    [] s.fam = "object" -> BuildObject(s.code)
    [] s.fam = "for" -> BuildFor(s.code)
    [] s.fam = "prefix" -> BuildPrefix(s.code)
    [] s.fam = "assign" -> BuildAssign(s.code)
    [] s.fam = "access" -> BuildAccess(s.code)
    [] s.fam = "pipe" -> BuildPipe(s.code)
    [] s.fam = "unary" -> BuildUnary(s.code)
    [] s.fam = "return" -> BuildReturn(s.code)
    [] s.fam = "integer" -> BuildInteger(s.code)

\* the values the uninitialised reads of the parser may yield
Uninit == [i : 0..MaxGarbage, alias : BOOLEAN]

(***************************************************************************)
(* The revision src/src/parser/parser.cpp, for a statement that is one     *)
(* data token: parsePrimaryExpr, and the levels from parseStatement down   *)
(* to it, which take a further token only when the token at the front      *)
(* after the primary expression continues the expression.                  *)
(***************************************************************************)
parsePrimaryExpr_parser_cpp(toks) ==
  CASE Head(toks).type = "INTEGER_LITERAL" ->
         IF stoi(Head(toks).value) = -1
           THEN Throw("std::out_of_range", <<"stoi">>, Tail(toks))
           ELSE Ok(IntegerLiteral(stoi(Head(toks).value)), Tail(toks))
    [] Head(toks).type = "DOUBLE_LITERAL" -> Ok(DoubleLiteral(FALSE, Head(toks).value), Tail(toks))
    [] Head(toks).type = "BOOLEAN_LITERAL" -> Ok(BooleanLiteral(Head(toks).value = "true"), Tail(toks))
    [] Head(toks).type = "NULL_LITERAL" -> Ok(NullLiteral, toks)
    [] Head(toks).type = "IDENTIFIER" ->
         Ok([kind |-> "Identifier", identifier |-> Head(toks).value], Tail(toks))
    [] OTHER ->
         Throw("std::logic_error",
               <<"Unexpected token \"", Head(toks).plainText, "\" found in primary expression.">>,
               toks)

\* the conditions under which parseMemberExpr, parseCallMemberExpr, the binary
\* levels or parseAssignmentExpr of parser.cpp go on after the left operand
Continues_parser_cpp(t) ==
  \/ t.tag = "SYNTAX" /\ t.type \in {"DOT", "OPEN_BRACKET", "OPEN_PARENTHESIS"}
  \/ t.tag = "OPERATOR"
  \/ t.value \in {"+", "-", "*", "/", "%", "<", ">", "<=", ">=", "==", "!=", "&&", "||"}

\* the streams on which parseStatement of parser.cpp is parsePrimaryExpr alone
SingleToken_parser_cpp(toks) ==
  /\ toks # <<>>
  /\ Head(toks).tag = "DATA"
  /\ parsePrimaryExpr_parser_cpp(toks).st = "ok" =>
       /\ parsePrimaryExpr_parser_cpp(toks).toks # <<>>
       /\ ~Continues_parser_cpp(Head(parsePrimaryExpr_parser_cpp(toks).toks))

parseStatement_parser_cpp(toks) == parsePrimaryExpr_parser_cpp(toks)

(***************************************************************************)
(* The driver: Parser::Parser, parse, buildAST, handleException.           *)
(***************************************************************************)
Program(stmts) == [kind |-> "Program", body |-> stmts]

Init ==
  /\ Shapes
  /\ input = Build(shape)
  /\ tokens = input
  /\ program = Nullptr
  /\ status = "constructed"
  /\ exc = NoExc
  /\ diagnostics = 0
  /\ emptyRead = FALSE

\* parse(): the INIT marker is asserted outside the try block of buildAST
Parse ==
  /\ status = "constructed"
  /\ LET a == assertToken(tokens, "BasicToken::INIT",
                          "Expected INIT token at the beginning of the token stream.") IN
     /\ tokens' = a.toks
     /\ exc' = a.exc
     /\ status' = CASE a.st = "ok" -> "building"
                    [] a.st = "throw" -> "uncaught"
                    [] a.st = "undefined" -> "undefined"
     /\ program' = IF a.st = "ok" THEN Program(<<>>) ELSE program
     /\ emptyRead' = (a.st = "undefined")
  /\ UNCHANGED <<shape, input, diagnostics>>

\* seeded fault: an iteration of buildAST that pushes the null result of a comment too
Pushed_withNull(stmt) ==
  LET s1 == skipSemicolon(stmt.toks)
      r == IF stmt.st # "ok" THEN stmt ELSE s1 IN
  /\ tokens' = r.toks
  /\ exc' = r.exc
  /\ status' = CASE r.st = "ok" -> "building"
                 [] r.st = "throw" -> "caught"
                 [] r.st = "undefined" -> "undefined"
  /\ program' = IF stmt.st = "ok" THEN Program(Append(program.body, stmt.node))
                                  ELSE program
  /\ emptyRead' = (r.st = "undefined")

\* the rest of one iteration of the loop of buildAST, given what parseStatement did:
\* program->body.push_back(...) and skipSemicolon()
Pushed(stmt) ==
  LET s1 == skipSemicolon(stmt.toks)
      r == IF stmt.st # "ok" THEN stmt ELSE s1 IN
  /\ tokens' = r.toks
  /\ exc' = r.exc
  /\ status' = CASE r.st = "ok" -> "building"
                 [] r.st = "throw" -> "caught"
                 [] r.st = "undefined" -> "undefined"
  /\ program' = IF stmt.st = "ok" /\ stmt.node # Nullptr
                  THEN Program(Append(program.body, stmt.node))
                  ELSE program
  /\ emptyRead' = (r.st = "undefined")

\* one iteration of the loop of buildAST: parseStatement, push_back, skipSemicolon
BuildStatement ==
  /\ status = "building"
  /\ tokens # <<>>
  /\ ~isEOF(tokens)
  /\ \E u \in Uninit : Pushed(Call("parseStatement", tokens, u))
  /\ UNCHANGED <<shape, input, diagnostics>>

\* isEOF() of the loop condition applied to a stream with no token left
BuildPastEnd ==
  /\ status = "building"
  /\ tokens = <<>>
  /\ status' = "undefined"
  /\ emptyRead' = TRUE
  /\ UNCHANGED <<shape, input, tokens, program, exc, diagnostics>>

\* the loop ends at the EOF marker; buildAST and parse return the Program
Return ==
  /\ status = "building"
  /\ tokens # <<>>
  /\ isEOF(tokens)
  /\ status' = "returned"
  /\ UNCHANGED <<shape, input, tokens, program, exc, diagnostics, emptyRead>>

\* catch (const std::exception& e) { handleException(e); }
HandleException ==
  /\ status = "caught"
  /\ diagnostics' = diagnostics + 1
  /\ status' = "exited"
  /\ UNCHANGED <<shape, input, tokens, program, exc, emptyRead>>

\* after a read of an empty stream the run may crash, fail or return
UndefinedBehaviour ==
  /\ status = "undefined"
  /\ \E outcome \in {"crashed", "exited", "returned"} :
       /\ status' = outcome
       /\ diagnostics' = IF outcome = "exited" THEN diagnostics + 1 ELSE diagnostics
  /\ UNCHANGED <<shape, input, tokens, program, exc, emptyRead>>

Next ==
  \/ Parse
  \/ BuildStatement
  \/ BuildPastEnd
  \/ Return
  \/ HandleException
  \/ UndefinedBehaviour

Spec == Init /\ [][Next]_vars

(***************************************************************************)
(* Properties of the driver.                                               *)
(***************************************************************************)
Failed == {"uncaught", "caught", "exited", "undefined", "crashed"}

First(seq) == seq[1]
Last(seq) == seq[Len(seq)]

\* C1: every failure raised during parse, a missing INIT marker as much as a
\* grammar violation, is caught by the driver, which emits exactly one
\* diagnostic and terminates the process; no failure escapes the driver.
C1_FailureCaughtOnce ==
  exc # NoExc =>
    /\ status \in {"caught", "exited"}
    /\ diagnostics = (IF status = "exited" THEN 1 ELSE 0)

\* C2: when the first token is not the INIT marker, parse fails without a
\* Program ever being built; when it is, parse consumes it before the
\* statement loop starts, so that no statement is parsed from it.
C2_InitMarkerRequired ==
  /\ [](input # <<>> /\ First(input) # T.Init =>
          /\ program = Nullptr
          /\ status \in {"constructed", "uncaught"})
  /\ [][status = "constructed" /\ input # <<>> /\ First(input) = T.Init =>
          /\ status' = "building"
          /\ tokens' = Tail(input)
          /\ program' = Program(<<>>)]_vars

C2_MissingInitRejected ==
  /\ input # <<>>
  /\ First(input) # T.Init
  /\ status = "uncaught"
  /\ exc.type = "std::invalid_argument"
  /\ program = Nullptr

\* the node each statement of StatementPool stands for, Nullptr for a comment
StatementNode ==
  << Identifier(TId("a")),
     UnaryExpr(T.Inc, Identifier(TId("b")), TRUE),
     VarDeclaration(T.Var, << <<TId("x"), IntegerLiteral(1)>> >>),
     ReturnStmt(Identifier(TId("c"))),
     AssignmentExpr(Identifier(TId("d")), IntegerLiteral(2)),
     Nullptr,
     Nullptr >>

RECURSIVE ExpectedBody(_)
ExpectedBody(code) ==
  IF code = <<>> THEN <<>>
  ELSE IF IsComment(Head(code)) THEN ExpectedBody(Tail(code))
  ELSE <<StatementNode[StmtIndex(Head(code))]>> \o ExpectedBody(Tail(code))

\* the run of a "stmts" input did not fail, and returns the nodes of its statements
ReturnsStatementNodes ==
  /\ status \notin Failed
  /\ status = "returned" => program = Program(ExpectedBody(shape.code))

\* C3 as stated: for INIT s1 ... sn EOF, each si a complete statement or an
\* inline comment optionally followed by one terminator, parse returns a
\* Program whose body is the nodes of the non-comment si, in source order.
C3_BodyIsStatementNodes == shape.fam = "stmts" => ReturnsStatementNodes

\* the statement with this code ends where the next one starts: it is followed
\* by a terminator, ends with its own, or is a comment
EndsWithTerminator(c) ==
  \/ Terminated(c)
  \/ IsComment(c)
  \/ Last(StatementPool[StmtIndex(c)]) = T.Semi

\* a token an expression left open goes on with: an operator or an opening
\* parenthesis, bracket, dot or pipe
ContinuesExpression(t) ==
  \/ t.tag \in {"OPERATOR", "LOGICAL"}
  \/ t.tag = "SYNTAX" /\
     t.type \in {"OPEN_PARENTHESIS", "OPEN_BRACKET", "DOT", "PIPE_OPERATOR",
                 "QUESTION_MARK", "COMMA"}

Separated(code) ==
  \A j \in 1..(Len(code) - 1) :
    \/ EndsWithTerminator(code[j])
    \/ ~ContinuesExpression(First(StatementPool[StmtIndex(code[j + 1])]))

\* C3, amended: the same, provided no statement left without a terminator is
\* directly followed by a statement beginning with a token that continues an
\* expression (an operator such as ++, or an opening parenthesis or bracket).
C3_SeparatedBodyIsStatementNodes ==
  shape.fam = "stmts" /\ Separated(shape.code) => ReturnsStatementNodes

C3_CommentAndOpenStatementReturned ==
  /\ shape.fam = "stmts"
  /\ Len(shape.code) = 2
  /\ IsComment(shape.code[1])
  /\ ~EndsWithTerminator(shape.code[2])
  /\ status = "returned"
  /\ Len(program.body) = 1

\* the input begins with the INIT marker and ends with the EOF marker
Delimited == input # <<>> /\ First(input) = T.Init /\ Last(input) = T.Eof

\* C4: for every sequence that begins with INIT and ends with EOF, a valid
\* program or not, no advance, expect or peek acts on an empty stream.
C4_NoReadOfEmptyStream == Delimited => ~emptyRead

\* the input begins with the INIT marker and holds no EOF marker
Truncated ==
  /\ input # <<>>
  /\ First(input) = T.Init
  /\ \A j \in 1..Len(input) : input[j] # T.Eof

\* C5: a sequence that lacks its final EOF marker always raises a failure:
\* the stream is never read past its end and parse never returns a tree.
C5_TruncatedInputFails ==
  Truncated => /\ ~emptyRead
               /\ status # "returned"

(***************************************************************************)
(* Properties of the expression grammar.                                   *)
(***************************************************************************)
\* C6: two runs of parse on the same token sequence produce the same outcome:
\* every decision, the lookahead scan of a parenthesis included, depends only
\* on the remaining tokens (and on nothing an uninitialised read may yield).
C6_OutcomeDependsOnTokensOnly ==
  status = "building" /\ tokens # <<>> /\ ~isEOF(tokens) =>
    \A u1, u2 \in Uninit :
      Call("parseStatement", tokens, u1) = Call("parseStatement", tokens, u2)

\* the precedence level of the j-th operator of BinaryOperators:
\* logical 1, equality 2, relational 3, additive 4, multiplicative 5, power 6
Level(j) ==
  CASE j \in 1..2 -> 1
    [] j \in 3..4 -> 2
    [] j \in 5..8 -> 3
    [] j \in 9..10 -> 4
    [] j \in 11..13 -> 5
    [] j = 14 -> 6

\* the node of the j-th operand of a "binary" input
OperandNode(j) ==
  IF j % 2 = 0 THEN IntegerLiteral(j) ELSE Identifier(Operand(j))

\* (x op1 y) op2 z and x op1 (y op2 z) for the operands of a "binary" input
LeftNested(op1, op2) ==
  BinaryExpr(BinaryExpr(OperandNode(1), OperandNode(2), BinaryOperators[op1]),
             OperandNode(3), BinaryOperators[op2])
RightNested(op1, op2) ==
  BinaryExpr(OperandNode(1),
             BinaryExpr(OperandNode(2), OperandNode(3), BinaryOperators[op2]),
             BinaryOperators[op1])

\* the run did not fail, and returns the one statement node
ReturnsOnly(node) ==
  /\ status \notin Failed
  /\ status = "returned" => program = Program(<<node>>)

TwoOperators == shape.fam = "binary" /\ Len(shape.code) = 2

\* C7: for operators lo and hi of different levels of logical < equality <
\* relational < additive < multiplicative < power, a lo b hi c parses to
\* a lo (b hi c) and a hi b lo c parses to (a hi b) lo c.
C7_HigherLevelBindsTighter ==
  TwoOperators /\ Level(shape.code[1]) # Level(shape.code[2]) =>
    ReturnsOnly(IF Level(shape.code[1]) < Level(shape.code[2])
                  THEN RightNested(shape.code[1], shape.code[2])
                  ELSE LeftNested(shape.code[1], shape.code[2]))

C7_LowThenHighReturned ==
  /\ TwoOperators
  /\ Level(shape.code[1]) < Level(shape.code[2])
  /\ status = "returned"
  /\ program.body[1].right.kind = "BinaryExpr"

\* C8: operators of one level associate to the left: for op1 and op2 of the
\* same level (&& with ||, ** with **), a op1 b op2 c parses to (a op1 b) op2 c.
C8_SameLevelAssociatesLeft ==
  TwoOperators /\ Level(shape.code[1]) = Level(shape.code[2]) =>
    ReturnsOnly(LeftNested(shape.code[1], shape.code[2]))

C8_PowerOfPowerReturned ==
  /\ TwoOperators
  /\ shape.code = <<14, 14>>
  /\ status = "returned"
  /\ program.body[1].left.kind = "BinaryExpr"

\* some call suffix of the chain is directly followed by a member access
AccessFollowsCall ==
  /\ shape.fam = "chain"
  /\ \E j \in 1..(Len(shape.code) - 1) :
       shape.code[j] = 2 /\ shape.code[j + 1] \in {1, 3}

\* C9: a property access or a bracket access may follow the argument list of
\* a call in the same chain; a.b(1).c[2]++ parses to one statement, a postfix
\* UnaryExpr wrapping a computed MemberExpr.
C9_AccessMayFollowCall ==
  AccessFollowsCall =>
    /\ status \notin Failed
    /\ status = "returned" =>
         /\ Len(program.body) = 1
         /\ shape.code = <<1, 2, 1, 3, 4>> =>
              /\ program.body[1].kind = "UnaryExpr"
              /\ ~program.body[1].isPrefix
              /\ program.body[1].operand.kind = "MemberExpr"
              /\ program.body[1].operand.computed

\* C10: a call directly followed by another argument list, a(0)(1), parses
\* as one expression, a CallExpr applied to the result of the CallExpr a(0),
\* and no token of the chain is left to start a new statement.
C10_CallOfCallIsOneExpression ==
  shape = [fam |-> "chain", code |-> <<2, 2>>] =>
    /\ status \notin Failed
    /\ status = "building" /\ program.body # <<>> => tokens = <<T.Eof>>
    /\ status = "returned" =>
         /\ Len(program.body) = 1
         /\ program.body[1].kind = "CallExpr"
         /\ \/ program.body[1].caller.kind = "CallExpr"
            \/ program.body[1].method.kind = "CallExpr"

(***************************************************************************)
(* Properties of declarations and statements.                              *)
(***************************************************************************)
\* the declarations a "var" / "const" input stands for
DeclaredPairs(code) ==
  [j \in 1..Len(code) |->
     <<TId(BindingName(j)), IF code[j] = 2 THEN IntegerLiteral(j) ELSE Nullptr>>]

\* no statement was parsed and the run fails, or is still on its way to
NeverParsed ==
  /\ status \in {"constructed", "building", "caught", "exited"}
  /\ program = Nullptr \/ program.body = <<>>

\* C11: a const binding without an initializer, alone (const x;) or as any
\* binding of a comma-chained const declaration, raises a grammar violation,
\* while the same binding under var is accepted with a null value.
C11_ConstNeedsInitializer ==
  /\ (shape.fam = "const" /\ \E j \in 1..Len(shape.code) : shape.code[j] = 1) => NeverParsed
  /\ (shape.fam = "var" /\ shape.code # <<>>) =>
       ReturnsOnly(VarDeclaration(T.Var, DeclaredPairs(shape.code)))

\* the node of the j-th entry of a "log" input, an argument of kind c
LogArgumentNode(c, j) ==
  CASE c = 1 -> Identifier(TId("a"))
    [] c = 2 -> IntegerLiteral(j)
    [] c = 3 -> HexCodeLiteral(<<"#", "fff">>)
    [] c = 4 -> StringLiteral("s")

\* the nodes of the arguments from..to of a "log" input
LogArgumentNodes(code, from, to) ==
  [j \in 1..(to - from + 1) |-> LogArgumentNode(code[from + j - 1], from + j - 1)]

\* C12: a colored log with arguments e1 ... en (n >= 1) parses iff en is a
\* HexCodeLiteral, and then color = en and the message is e1 ... e(n-1); for
\* every other log function color is null and the message is all n arguments.
C12_ColoredLogSplitsColor ==
  shape.fam = "log" /\ Len(shape.code) >= 2 =>
    LET n == Len(shape.code) IN
    IF shape.code[1] = 2
      THEN IF shape.code[n] = 3
             THEN ReturnsOnly(LogStmt(T.Logc, LogArgumentNodes(shape.code, 2, n - 1),
                                      LogArgumentNode(3, n)))
             ELSE /\ NeverParsed
                  /\ status \in {"caught", "exited"} => exc.type = "std::invalid_argument"
      ELSE ReturnsOnly(LogStmt(LogFunctions[shape.code[1]],
                               LogArgumentNodes(shape.code, 2, n), Nullptr))

C12_ColoredLogReturned ==
  /\ shape.fam = "log"
  /\ Len(shape.code) = 3
  /\ shape.code[1] = 2
  /\ status = "returned"
  /\ program.body[1].color.kind = "HexCodeLiteral"
  /\ Len(program.body[1].message) = 1

\* the properties an "object" input stands for
EntryProperties(code) ==
  [j \in 1..Len(code) |->
     Property(TId(BindingName(j)), IF code[j] \in {2, 4} THEN IntegerLiteral(1) ELSE Nullptr)]

\* C13: an object literal of bare keys and key: value pairs separated by
\* commas yields one Property per entry in source order, with a null value for
\* a bare key and the parsed expression for a pair, so { x, y: 1 } gives
\* Property(x, null), Property(y, 1); two entries without a comma between
\* them fail the parse.
C13_ObjectEntriesInOrder ==
  shape.fam = "object" =>
    IF \A j \in 1..(Len(shape.code) - 1) : shape.code[j] \in {1, 2}
      THEN ReturnsOnly(ObjectLiteral(EntryProperties(shape.code)))
      ELSE NeverParsed

C13_BareKeyAndPairReturned ==
  /\ shape = [fam |-> "object", code |-> <<1, 4>>]
  /\ status = "returned"
  /\ program.body[1].properties[1].value = Nullptr
  /\ program.body[1].properties[2].value = IntegerLiteral(1)

\* the sub-trees the parts of a "for" input stand for
ForIteratorNodes ==
  << VarDeclaration(T.Var, << <<TId("x"), Nullptr>> >>),
     VarDeclaration(T.Const, << <<TId("x"), Nullptr>> >>),
     VarDeclaration(T.Var, << <<TId("x"), IntegerLiteral(0)>> >>) >>
ForIterableNodes ==
  << Identifier(TId("a")),
     MemberExpr(Identifier(TId("a")), Identifier(TId("b")), FALSE),
     IntegerLiteral(1) >>
ForStatementNodes == <<Identifier(TId("b")), Identifier(TId("c")), Nullptr>>
ForBody(code) == [j \in 1..(Len(code) - 3) |-> ForStatementNodes[code[j + 3]]]

\* C14: two for-loops that differ only in the keyword after the iterator give
\* a ForInStmt for in and a ForOfStmt for of, with the same iterator, iterable
\* and body sub-trees; with neither keyword the loop is the three-clause ForStmt.
C14_ForKeywordSelectsLoop ==
  shape.fam = "for" /\ Len(shape.code) >= 3 =>
    LET iterator == ForIteratorNodes[shape.code[2]]
        iterable == ForIterableNodes[shape.code[3]] IN
    ReturnsOnly(CASE shape.code[1] = 1 -> ForInStmt(iterator, iterable, ForBody(shape.code))
                  [] shape.code[1] = 2 -> ForOfStmt(iterator, iterable, ForBody(shape.code))
                  [] shape.code[1] = 3 ->
                       ForStmt(iterator, iterable,
                               UnaryExpr(T.Inc, Identifier(TId("x")), FALSE),
                               ForBody(shape.code)))

C14_ForOfReturned ==
  /\ shape.fam = "for"
  /\ Len(shape.code) = 4
  /\ shape.code[1] = 2
  /\ status = "returned"
  /\ program.body[1].kind = "ForOfStmt"
  /\ Len(program.body[1].body) = 1

\* under this table of constructors the class c carries its own tag, and no
\* other class carries it
TagIsClass(tags, c) ==
  c \in DOMAIN tags =>
    /\ tags[c] = c
    /\ \A d \in DOMAIN tags : tags[d] = tags[c] => d = c

\* C15: in every revision of the AST model the kind tag of every node equals
\* the tag of its concrete class, so no two node classes carry the same tag;
\* stated of every node the parser puts into the body of the Program.
C15_KindTagIsClass ==
  program # Nullptr =>
    \A j \in 1..Len(program.body) :
      /\ TagIsClass(NodeTypeOf_ast_nodes, program.body[j].kind)
      /\ TagIsClass(NodeTypeOf_part_002, program.body[j].kind)

\* the text of a failure is the concatenation of the parts of what; a text is
\* contained in it when it is empty or one of the parts
Contains(what, text) == text = "" \/ \E j \in DOMAIN what : what[j] = text

ExpectedForms == {"BasicToken::INIT", "SyntaxToken::SEMICOLON", "DataToken::IDENTIFIER"}

\* assertToken(c, msg) on the stream toks removes the front token, returns it
\* iff its plain text is c, and otherwise throws with a text that contains
\* the given text of the token and msg
ExpectOutcome(toks, c, msg, textOfToken) ==
  /\ assertToken(toks, c, msg).toks = Tail(toks)
  /\ assertToken(toks, c, msg).st = "ok" <=> Head(toks).plainText = c
  /\ assertToken(toks, c, msg).st = "ok" => assertToken(toks, c, msg).node = Head(toks)
  /\ assertToken(toks, c, msg).st # "ok" =>
       /\ assertToken(toks, c, msg).st = "throw"
       /\ Contains(assertToken(toks, c, msg).exc.what, textOfToken)
       /\ Contains(assertToken(toks, c, msg).exc.what, msg)

C17_PeekClampsLookAheadFails ==
  tokens # <<>> =>
    \A k \in 1..(Len(tokens) + 2) :
      /\ lookAhead(tokens, k).toks = tokens
      /\ k <= Len(tokens) =>
           /\ peek(tokens, k) = tokens[k]
           /\ lookAhead(tokens, k) = Ok(tokens[k], tokens)
      /\ k > Len(tokens) =>
           /\ peek(tokens, k) = tokens[Len(tokens)]
           /\ lookAhead(tokens, k).st = "throw"

\* the scan for the parenthesis that closes ( a has looked past the EOF marker
\* and failed, with the stream as it was when the scan began
C17_LookAheadPastEndFailed ==
  /\ input = <<T.Init, T.LParen, TId("a"), T.Eof>>
  /\ status = "caught"
  /\ exc.what = <<"Unexpected end of file">>
  /\ tokens = <<TId("a"), T.Eof>>

\* the texts the grammar violations begin with
GrammarViolations ==
  {"Unexpected token found: ",
   "Expected identifiers in function arguments list.",
   "Invalid boolean literal: ",
   "Unexpected token \"",
   "Cannot use dot operator without right-hand side being an identifier.",
   "Expected Short Notation following pipe operator.",
   "Expected hex code literal as last argument for a colored log."}

\* C18: every grammar violation is raised with one and the same failure kind,
\* invalid-input, and a lookAhead past the end of the stream is raised with a
\* different kind.
C18_GrammarViolationsShareKind ==
  exc # NoExc =>
    /\ exc.what[1] \in GrammarViolations => exc.type = "std::invalid_argument"
    /\ exc.what = <<"Unexpected end of file">> => exc.type # "std::invalid_argument"

\* C19: prefix ++ and -- bind looser than member access and function call and
\* tighter than **: ++a.b parses to a prefix UnaryExpr whose operand is
\* MemberExpr(a.b), and ++a ** b parses to BinaryExpr(UnaryExpr(++a) ** b).
C19_PrefixBindsLooserThanAccess ==
  shape.fam = "prefix" /\ Len(shape.code) = 2 =>
    ReturnsOnly(IF shape.code[2] = 1
                  THEN UnaryExpr(PrefixOperators[shape.code[1]],
                                 MemberExpr(Identifier(TId("a")), Identifier(TId("b")), FALSE),
                                 TRUE)
                  ELSE BinaryExpr(UnaryExpr(PrefixOperators[shape.code[1]],
                                            Identifier(TId("a")), TRUE),
                                  Identifier(TId("b")), T.Pow))

IsSuffix(toks, of) ==
  /\ Len(toks) <= Len(of)
  /\ toks = SubSeq(of, Len(of) - Len(toks) + 1, Len(of))

\* a parsing function that returned r on the stream toks removed a token
Removes(r, toks) == r.st = "ok" => Len(r.toks) < Len(toks) /\ IsSuffix(r.toks, toks)

\* C20: on every token sequence that starts with INIT and ends with EOF the
\* remaining stream is always a suffix of the input, and every parseStatement
\* call made by the top-level loop removes at least one token, whatever token
\* the statement starts with (a null literal included), in both
\* src/src/parser/parser.cpp and src/unnamed/part_010.
C20_EveryStatementRemovesAToken ==
  input # <<>> /\ Head(input) = T.Init /\ Last(input) = T.Eof =>
    /\ IsSuffix(tokens, input)
    /\ status = "building" /\ tokens # <<>> /\ ~isEOF(tokens) =>
         /\ \A u \in Uninit : Removes(Call("parseStatement", tokens, u), tokens)
         /\ SingleToken_parser_cpp(tokens) =>
              Removes(parseStatement_parser_cpp(tokens), tokens)

\* the statement list of a loop, of a function or of the Program holds no null
StatementsNonNull(node) ==
  "body" \in DOMAIN node => \A j \in 1..Len(node.body) : node.body[j] # Nullptr

\* the operands of a BinaryExpr, MemberExpr or UnaryExpr are not null
OperandsNonNull(node) ==
  /\ node.kind = "BinaryExpr" => node.left # Nullptr /\ node.right # Nullptr
  /\ node.kind = "MemberExpr" => node.object # Nullptr /\ node.property # Nullptr
  /\ node.kind = "UnaryExpr" => node.operand # Nullptr

\* C21: every statement list in a returned tree contains only non-null nodes
\* and every operand of an expression node is non-null, also when inline
\* comments occur inside a block or in expression position; stated of the
\* Program, of its statements and of their blocks.
C21_NoNullChild ==
  status = "returned" /\ program # Nullptr =>
    /\ StatementsNonNull(program)
    /\ \A j \in 1..Len(program.body) :
         program.body[j] # Nullptr =>
           StatementsNonNull(program.body[j]) /\ OperandsNonNull(program.body[j])

\* the node of the assignment operator with code c
AssignmentNode(c, assignee, value) ==
  IF c = 1 THEN AssignmentExpr(assignee, value)
  ELSE CompoundAssignmentExpr(assignee, value, AssignmentOperators[c])

\* C22: for every assignment operator, = and each compound operator the lexer
\* produces (+=, -=, *=, /=, %=, **=), a op b op c parses right-associatively
\* to the node of the first operator whose value is the node of b op c; a
\* compound node carries its operator token, and one following terminator is
\* consumed if present.
C22_AssignmentAssociatesRight ==
  /\ shape.fam = "assign"
  /\ Len(shape.code) \in {2, 3}
  /\ shape.code[1] # 8 /\ shape.code[2] # 8
  /\ Len(shape.code) = 3 => shape.code[3] = 8
  => ReturnsOnly(AssignmentNode(shape.code[1], OperandNode(1),
                                AssignmentNode(shape.code[2], OperandNode(2), OperandNode(3))))

\* some dot of the input is not followed by an identifier, or some pipe not by
\* a short-notation token
BadAccess(toks) ==
  \E j \in 1..(Len(toks) - 1) :
    \/ toks[j] = T.Dot /\ ~Is(toks[j + 1], "DATA", "IDENTIFIER")
    \/ toks[j] = T.Pipe /\ toks[j + 1].tag # "SHORT_NOTATION"

\* C23: wherever a dot occurs in a member/call chain (after a primary, after
\* a bracket access, or after a call's argument list) the parse fails unless
\* its right-hand side is an identifier, and wherever a pipe occurs the parse
\* fails unless the next token is a short-notation token.
C23_BadAccessFails ==
  shape.fam = "access" /\ BadAccess(input) /\ ~emptyRead => status # "returned"

PipeArgumentNodes(code) ==
  [j \in 1..(Len(code) - 1) |->
     IF code[j + 1] = 1 THEN Identifier(TId("b")) ELSE IntegerLiteral(j + 1)]

\* the one statement of the returned Program is the call of length on a with
\* the argument trees of the code
IsLengthCall(code) ==
  /\ Len(program.body) = 1
  /\ program.body[1].kind = "CallExpr"
  /\ program.body[1].caller = Identifier(TId("a"))
  /\ program.body[1].method.kind = "Identifier"
  /\ program.body[1].method.identifier.value = shortEnumToString["LENGTH"]
  /\ program.body[1].args = PipeArgumentNodes(code)

\* C24: for every list of n >= 0 comma-separated argument expressions that the
\* verbose call form accepts, x |> OP(args) parses to the same CallExpr shape
\* as the verbose x.op(args): caller x, method an Identifier whose name is the
\* lookup-table entry for OP, and the same n argument trees in the same order.
C24_ShortCallIsVerboseCall ==
  shape.fam = "pipe" /\ Len(shape.code) >= 1 =>
    /\ status \notin Failed
    /\ status = "returned" => IsLengthCall(shape.code)

\* the codes of the "paren" family: ( followed by the tokens of the code, where
\* 1 is the closing parenthesis, 2 the identifier a and 3 the callback arrow
Unbalanced(code) == \A j \in 1..Len(code) : code[j] # 1

\* C25: after consuming ( in primary position the parser scans forward,
\* starting at the token immediately after that (, to the ) that balances it;
\* iff the token right after that ) is the callback arrow the result is a
\* CallbackFunctionExpr with the parameter identifiers in source order,
\* otherwise the result is the tree of the enclosed expression with no wrapper
\* node; if no balancing ) exists the parse fails.
C25_ScanDecidesCallback ==
  shape.fam = "paren" =>
    /\ Unbalanced(shape.code) /\ ~emptyRead => status # "returned"
    /\ shape.code = <<2, 1>> => ReturnsOnly(Identifier(TId("a")))
    /\ shape.code = <<1, 3, 2>> =>
         ReturnsOnly(CallbackFunctionExpr(<<>>, <<Identifier(TId("a"))>>))
    /\ shape.code = <<2, 1, 3, 2>> =>
         ReturnsOnly(CallbackFunctionExpr(<<TId("a")>>, <<Identifier(TId("a"))>>))

UnaryOperandNodes ==
  <<IntegerLiteral(5), DoubleLiteral(FALSE, "1.5"), Identifier(TId("a"))>>

\* C26: a - in primary position followed by an integer or double literal
\* yields a single literal holding the negated value and no UnaryExpr, whereas
\* prefix ++, -- and ! always yield a UnaryExpr with isPrefix = true; a - in
\* primary position followed by any other token fails the parse.
C26_MinusFoldsIntoLiteral ==
  shape.fam = "unary" /\ Len(shape.code) = 2 /\ ~emptyRead =>
    /\ shape.code[1] = 1 /\ shape.code[2] = 1 => ReturnsOnly(IntegerLiteral(-5))
    /\ shape.code[1] = 1 /\ shape.code[2] = 2 => ReturnsOnly(DoubleLiteral(TRUE, "1.5"))
    /\ shape.code[1] = 1 /\ shape.code[2] \in {3, 4} => status # "returned"
    /\ shape.code[1] # 1 /\ shape.code[2] # 4 =>
         ReturnsOnly(UnaryExpr(UnaryOperators[shape.code[1]],
                               UnaryOperandNodes[shape.code[2]], TRUE))

\* - 5 has been parsed and returned as one IntegerLiteral
C26_NegativeLiteralReturned ==
  /\ shape = [fam |-> "unary", code |-> <<1, 1>>]
  /\ status = "returned"
  /\ program.body = <<IntegerLiteral(-5)>>

\* C27: the operand of a prefix ! is the entire following expression parsed at
\* assignment level, not the next primary: !a && b parses to
\* UnaryExpr(!, BinaryExpr(a && b)) and !a == b to UnaryExpr(!, BinaryExpr(a == b)).
C27_NotTakesWholeExpression ==
  shape.fam = "unary" /\ Len(shape.code) = 3 /\ shape.code[1] = 4 /\ shape.code[2] = 3 =>
    ReturnsOnly(UnaryExpr(T.Not,
                          BinaryExpr(Identifier(TId("a")), Identifier(TId("b")),
                                     IF shape.code[3] % 2 = 1 THEN T.And ELSE T.Eq),
                          TRUE))

\* ! a == b has been parsed and returned as one UnaryExpr over a BinaryExpr
C27_NotOfEqualityReturned ==
  /\ shape = [fam |-> "unary", code |-> <<4, 3, 2>>]
  /\ status = "returned"
  /\ program.body[1].kind = "UnaryExpr"
  /\ program.body[1].operand.kind = "BinaryExpr"

ReturnExpressionNodes ==
  <<Nullptr,
    Identifier(TId("a")),
    BinaryExpr(Identifier(TId("a")), IntegerLiteral(1), T.Plus),
    AssignmentExpr(Identifier(TId("a")), IntegerLiteral(1)),
    CompoundAssignmentExpr(Identifier(TId("a")), IntegerLiteral(1), T.AddAssign)>>

\* C28: for every expression E that parseExpression accepts, the statement
\* return E; is accepted and yields a ReturnStmt whose value is the tree of E,
\* also when E is an assignment or compound assignment; return; yields a
\* ReturnStmt with a null value.
C28_ReturnTakesAnyExpression ==
  shape.fam = "return" =>
    /\ status \notin Failed
    /\ status = "returned" =>
         program = Program([j \in 1..Len(shape.code) |->
                              ReturnStmt(ReturnExpressionNodes[shape.code[j]])])

IntegerValues == <<0, 7, 2147483647>>
TooLarge(c) == (c + 1) \div 2 > Len(IntegerValues)
IntegerNode(c) ==
  IntegerLiteral(IF c % 2 = 0 THEN -IntegerValues[(c + 1) \div 2]
                 ELSE IntegerValues[(c + 1) \div 2])

\* C30: an integer literal never wraps around: for token text denoting n with
\* 0 <= n <= 2^31 - 1 the IntegerLiteral holds exactly n, and exactly -n when
\* a leading minus is folded in; text denoting n > 2^31 - 1 makes the parse
\* fail, also behind a folded minus.
C30_IntegerLiteralNeverWraps ==
  shape.fam = "integer" =>
    IF \E j \in 1..Len(shape.code) : TooLarge(shape.code[j])
      THEN status # "returned"
      ELSE /\ status \notin Failed
           /\ status = "returned" =>
                program = Program([j \in 1..Len(shape.code) |-> IntegerNode(shape.code[j])])

\* - 2147483647 has been parsed and returned as one IntegerLiteral
C30_LargestLiteralReturned ==
  /\ shape = [fam |-> "integer", code |-> <<6>>]
  /\ status = "returned"
  /\ program.body = <<IntegerLiteral(-2147483647)>>

=============================================================================
